---- MODULE Spec2Model ----
(***************************************************************************)
(* Model of the room-booking agent's criteria normaliser and field mapper. *)
(* It also covers the browser automation's page classification, submit     *)
(* control and page analysis, the dropdown matcher, the agent's reply       *)
(* parsing, the booking workflows and the Flask routes.                     *)
(* Text is a sequence of one-character strings, so that parsing and        *)
(* formatting are computed character by character as the Python code and   *)
(* the library calls it makes (datetime.strptime, strftime, re.search,     *)
(* the "in" operator on str) compute them.                                 *)
(***************************************************************************)
EXTENDS Integers, Sequences, FiniteSets, TLC

VARIABLES now, libcPadsYear, op, variant, arg, ret, first, pc,
          environ, session, history, disk, procs, clock, driver

vars ==
    <<now, libcPadsYear, op, variant, arg, ret, first, pc, environ, session, history,
      disk, procs, clock, driver>>

(***************************************************************************)
(* Characters and text                                                     *)
(***************************************************************************)
Digits == {"0", "1", "2", "3", "4", "5", "6", "7", "8", "9"}

DigitVal(c) ==
    CASE c = "0" -> 0 [] c = "1" -> 1 [] c = "2" -> 2 [] c = "3" -> 3
      [] c = "4" -> 4 [] c = "5" -> 5 [] c = "6" -> 6 [] c = "7" -> 7
      [] c = "8" -> 8 [] c = "9" -> 9

DigitChar(n) ==
    CASE n = 0 -> "0" [] n = 1 -> "1" [] n = 2 -> "2" [] n = 3 -> "3"
      [] n = 4 -> "4" [] n = 5 -> "5" [] n = 6 -> "6" [] n = 7 -> "7"
      [] n = 8 -> "8" [] n = 9 -> "9"

LowerChar(c) ==
    CASE c = "A" -> "a" [] c = "B" -> "b" [] c = "C" -> "c" [] c = "D" -> "d"
      [] c = "E" -> "e" [] c = "F" -> "f" [] c = "G" -> "g" [] c = "H" -> "h"
      [] c = "I" -> "i" [] c = "J" -> "j" [] c = "K" -> "k" [] c = "L" -> "l"
      [] c = "M" -> "m" [] c = "N" -> "n" [] c = "O" -> "o" [] c = "P" -> "p"
      [] c = "Q" -> "q" [] c = "R" -> "r" [] c = "S" -> "s" [] c = "T" -> "t"
      [] c = "U" -> "u" [] c = "V" -> "v" [] c = "W" -> "w" [] c = "X" -> "x"
      [] c = "Y" -> "y" [] c = "Z" -> "z" [] OTHER -> c

\* str.lower()
Lower(s) == [i \in 1..Len(s) |-> LowerChar(s[i])]

\* str.count(c) for a one-character c
Count(s, c) == Cardinality({i \in 1..Len(s) : s[i] = c})

\* s[i:].startswith(w)
StartsWithAt(s, i, w) ==
    /\ i >= 1
    /\ i + Len(w) - 1 <= Len(s)
    /\ \A k \in 1..Len(w) : s[i + k - 1] = w[k]

\* the Python test  w in s
Contains(s, w) == \E i \in 1..(Len(s) + 1) : StartsWithAt(s, i, w)

\* number of consecutive digits of s from position i on
RECURSIVE DigitRun(_, _)
DigitRun(s, i) ==
    IF i > Len(s) \/ s[i] \notin Digits THEN 0 ELSE 1 + DigitRun(s, i + 1)

\* number of consecutive blanks of s from position i on
RECURSIVE SpaceRun(_, _)
SpaceRun(s, i) ==
    IF i > Len(s) \/ s[i] # " " THEN 0 ELSE 1 + SpaceRun(s, i + 1)

\* int(s[i:i+n]) for n digits
RECURSIVE NumVal(_, _, _)
NumVal(s, i, n) ==
    IF n = 0 THEN 0 ELSE NumVal(s, i, n - 1) * 10 + DigitVal(s[i + n - 1])

\* str(n) for n >= 0
RECURSIVE Dec(_)
Dec(n) == IF n < 10 THEN <<DigitChar(n)>> ELSE Dec(n \div 10) \o <<DigitChar(n % 10)>>

\* f"{n:02d}" : at least two digits, zero-padded
Pad2(n) == IF n < 10 THEN <<"0">> \o Dec(n) ELSE Dec(n)

\* at least four digits, zero-padded
Pad4(n) ==
    IF n < 10 THEN <<"0", "0", "0">> \o Dec(n)
    ELSE IF n < 100 THEN <<"0", "0">> \o Dec(n)
    ELSE IF n < 1000 THEN <<"0">> \o Dec(n)
    ELSE Dec(n)

(***************************************************************************)
(* Calendar                                                                *)
(***************************************************************************)
IsLeap(y) == (y % 4 = 0 /\ y % 100 # 0) \/ y % 400 = 0

DaysIn(y, m) ==
    IF m = 2 THEN (IF IsLeap(y) THEN 29 ELSE 28)
    ELSE IF m \in {4, 6, 9, 11} THEN 30 ELSE 31

MonthNames ==
    << <<"j", "a", "n", "u", "a", "r", "y">>,
       <<"f", "e", "b", "r", "u", "a", "r", "y">>,
       <<"m", "a", "r", "c", "h">>,
       <<"a", "p", "r", "i", "l">>,
       <<"m", "a", "y">>,
       <<"j", "u", "n", "e">>,
       <<"j", "u", "l", "y">>,
       <<"a", "u", "g", "u", "s", "t">>,
       <<"s", "e", "p", "t", "e", "m", "b", "e", "r">>,
       <<"o", "c", "t", "o", "b", "e", "r">>,
       <<"n", "o", "v", "e", "m", "b", "e", "r">>,
       <<"d", "e", "c", "e", "m", "b", "e", "r">> >>

MonthAbbrs == [m \in 1..12 |-> SubSeq(MonthNames[m], 1, 3)]

(***************************************************************************)
(* datetime.strptime: a format is a sequence of directives and literal     *)
(* characters; the whole string has to match.  A blank in the format       *)
(* matches one or more blanks.  Numeric directives try their two-digit     *)
(* alternatives before the one-digit one, as the library's regular         *)
(* expressions do.                                                         *)
(***************************************************************************)
\* Bind(v, Op) is Op(v): names a value that is used more than once
Bind(v, Op(_)) == Op(v)

NoMatch == [ok |-> FALSE]

Fields0 == [ok |-> TRUE, Y |-> 1900, m |-> 1, d |-> 1, H |-> 0, I |-> 0, M |-> 0, p |-> "none"]

TwoDigitOK(dr, v) ==
    CASE dr = "%m" -> v \in 1..12
      [] dr = "%d" -> v \in 1..31
      [] dr = "%H" -> v \in 0..23
      [] dr = "%I" -> v \in 1..12
      [] dr = "%M" -> v \in 0..59

OneDigitOK(dr, v) ==
    CASE dr = "%m" -> v \in 1..9
      [] dr = "%d" -> v \in 1..9
      [] dr = "%H" -> v \in 0..9
      [] dr = "%I" -> v \in 1..9
      [] dr = "%M" -> v \in 0..9

SetField(acc, dr, v) ==
    CASE dr = "%Y" -> [acc EXCEPT !.Y = v]
      [] dr = "%m" -> [acc EXCEPT !.m = v]
      [] dr = "%d" -> [acc EXCEPT !.d = v]
      [] dr = "%H" -> [acc EXCEPT !.H = v]
      [] dr = "%I" -> [acc EXCEPT !.I = v]
      [] dr = "%M" -> [acc EXCEPT !.M = v]

RECURSIVE Scan(_, _, _, _, _)
RECURSIVE ScanBlanks(_, _, _, _, _, _)

\* the first alternative that matched
OrElse(a, b) == IF a.ok THEN a ELSE b

\* the longest run of blanks first, then shorter ones
ScanBlanks(s, i, n, fmt, k, acc) ==
    IF n = 0 THEN NoMatch
    ELSE Bind(Scan(s, i + n, fmt, k + 1, acc),
              LAMBDA r : IF r.ok THEN r ELSE ScanBlanks(s, i, n - 1, fmt, k, acc))

ScanName(s, i, names, fmt, k, acc) ==
    Bind({m \in 1..12 : StartsWithAt(Lower(s), i, names[m])}, LAMBDA ms :
        IF ms = {} THEN NoMatch
        ELSE Bind(CHOOSE x \in ms : \A z \in ms : Len(names[x]) >= Len(names[z]), LAMBDA m :
                 Scan(s, i + Len(names[m]), fmt, k + 1, [acc EXCEPT !.m = m])))

Scan(s, i, fmt, k, acc) ==
    IF k > Len(fmt) THEN (IF i = Len(s) + 1 THEN acc ELSE NoMatch)
    ELSE Bind(fmt[k], LAMBDA dr :
      CASE dr = "%Y" ->
             IF DigitRun(s, i) >= 4
             THEN Scan(s, i + 4, fmt, k + 1, SetField(acc, dr, NumVal(s, i, 4)))
             ELSE NoMatch
        [] dr \in {"%m", "%d", "%H", "%I", "%M"} ->
             Bind(DigitRun(s, i), LAMBDA n :
               OrElse(IF n >= 2 /\ TwoDigitOK(dr, NumVal(s, i, 2))
                      THEN Scan(s, i + 2, fmt, k + 1, SetField(acc, dr, NumVal(s, i, 2)))
                      ELSE NoMatch,
               OrElse(IF n >= 1 /\ OneDigitOK(dr, NumVal(s, i, 1))
                      THEN Scan(s, i + 1, fmt, k + 1, SetField(acc, dr, NumVal(s, i, 1)))
                      ELSE NoMatch,
                      \* %d also accepts a blank followed by 1..9
                      IF dr = "%d" /\ n = 0 /\ i <= Len(s) /\ s[i] = " "
                         /\ DigitRun(s, i + 1) >= 1 /\ NumVal(s, i + 1, 1) \in 1..9
                      THEN Scan(s, i + 2, fmt, k + 1, SetField(acc, dr, NumVal(s, i + 1, 1)))
                      ELSE NoMatch)))
        [] dr = "%B" -> ScanName(s, i, MonthNames, fmt, k, acc)
        [] dr = "%b" -> ScanName(s, i, MonthAbbrs, fmt, k, acc)
        [] dr = "%p" ->
             IF StartsWithAt(Lower(s), i, <<"a", "m">>)
             THEN Scan(s, i + 2, fmt, k + 1, [acc EXCEPT !.p = "am"])
             ELSE IF StartsWithAt(Lower(s), i, <<"p", "m">>)
             THEN Scan(s, i + 2, fmt, k + 1, [acc EXCEPT !.p = "pm"])
             ELSE NoMatch
        [] dr = " " -> ScanBlanks(s, i, SpaceRun(s, i), fmt, k, acc)
        [] OTHER ->
             IF i <= Len(s) /\ s[i] = dr THEN Scan(s, i + 1, fmt, k + 1, acc) ELSE NoMatch)

\* datetime.strptime(s, fmt): NoMatch stands for ValueError.  The year
\* defaults to 1900; a day beyond the month's length and the year 0 are
\* rejected by the datetime constructor.
strptime(s, fmt) ==
    Bind(Scan(s, 1, fmt, 1, Fields0), LAMBDA r :
        IF ~r.ok THEN NoMatch
        ELSE IF r.Y < 1 \/ r.d > DaysIn(r.Y, r.m) THEN NoMatch
        ELSE [ok |-> TRUE, year |-> r.Y, month |-> r.m, day |-> r.d,
              hour |-> IF r.p = "none" THEN r.H
                       ELSE IF r.p = "am" THEN r.I % 12 ELSE (r.I % 12) + 12,
              minute |-> r.M])

\* datetime.replace(year=y): ValueError when the day does not exist in y
replace_year(dt, y) ==
    IF dt.day > DaysIn(y, dt.month) THEN NoMatch ELSE [dt EXCEPT !.year = y]

\* parsed < datetime.now(): parsed dates are at midnight, now.t > 0 says
\* that the clock is past midnight
Before(dt, n) ==
    \/ dt.year < n.y
    \/ dt.year = n.y /\ dt.month < n.m
    \/ dt.year = n.y /\ dt.month = n.m /\ dt.day < n.d
    \/ dt.year = n.y /\ dt.month = n.m /\ dt.day = n.d /\ n.t > 0

\* strftime("%Y-%m-%d"): the C library decides whether %Y is padded to four
\* digits for years below 1000
strftime_date(y, m, d, pads) ==
    (IF pads THEN Pad4(y) ELSE Dec(y)) \o <<"-">> \o Pad2(m) \o <<"-">> \o Pad2(d)

\* strftime("%H:%M")
strftime_time(h, m) == Pad2(h) \o <<":">> \o Pad2(m)

\* datetime.now().strftime("%Y-%m-%d")
Today(n, pads) == strftime_date(n.y, n.m, n.d, pads)

(***************************************************************************)
(* normalize_date, three copies in the repository                          *)
(***************************************************************************)
FmtYmd  == <<"%Y", "-", "%m", "-", "%d">>
FmtMdYs == <<"%m", "/", "%d", "/", "%Y">>
FmtMdYd == <<"%m", "-", "%d", "-", "%Y">>
FmtBdY  == <<"%B", " ", "%d", ",", " ", "%Y">>
FmtBd   == <<"%B", " ", "%d">>
FmtbdY  == <<"%b", " ", "%d", ",", " ", "%Y">>
Fmtbd   == <<"%b", " ", "%d">>

date_formats == <<FmtYmd, FmtMdYs, FmtMdYd, FmtBdY, FmtBd, FmtbdY, Fmtbd>>

StrNull == <<"n", "u", "l", "l">>
StrNone == <<"n", "o", "n", "e">>

\* the body of the loop over date_formats for one format: the parsed date
\* after the year substitutions, or NoMatch when strptime or replace raised
\* ValueError (the loop then continues with the next format)
roll_forward(s, fmt, n) ==
    Bind(strptime(s, fmt), LAMBDA p0 :
    IF ~p0.ok THEN NoMatch
    ELSE Bind(IF p0.year = 1900 THEN replace_year(p0, n.y) ELSE p0, LAMBDA p1 :
         IF ~p1.ok THEN NoMatch
         ELSE IF ~Before(p1, n) THEN p1
         ELSE Bind(replace_year(p1, n.y), LAMBDA p2 :
              IF ~p2.ok THEN NoMatch
              ELSE IF ~Before(p2, n) THEN p2
              ELSE replace_year(p2, n.y + 1))))

RECURSIVE try_date_formats(_, _, _, _)
try_date_formats(s, k, n, pads) ==
    IF k > Len(date_formats) THEN Today(n, pads)
    ELSE Bind(roll_forward(s, date_formats[k], n), LAMBDA p :
             IF p.ok THEN strftime_date(p.year, p.month, p.day, pads)
             ELSE try_date_formats(s, k + 1, n, pads))

\* test_smart_booking.normalize_date
normalize_date(s, n, pads) ==
    IF s = <<>> \/ Lower(s) \in {StrNull, StrNone} THEN Today(n, pads)
    ELSE IF Len(s) = 10 /\ Count(s, "-") = 2 /\ strptime(s, FmtYmd).ok THEN s
    ELSE try_date_formats(s, 1, n, pads)

\* test_complete_booking.normalize_date
normalize_date_complete(s, n, pads) ==
    IF s = <<>> \/ Lower(s) \in {StrNull, StrNone} THEN Today(n, pads)
    ELSE IF Len(s) = 10 /\ Count(s, "-") = 2 /\ strptime(s, FmtYmd).ok THEN s
    ELSE try_date_formats(s, 1, n, pads)

\* test_form_inspector.normalize_date: no early return, no roll-forward
RECURSIVE try_formats_inspector(_, _, _, _)
try_formats_inspector(s, k, n, pads) ==
    IF k > Len(date_formats) THEN Today(n, pads)
    ELSE Bind(strptime(s, date_formats[k]), LAMBDA p0 :
         Bind(IF p0.ok /\ p0.year = 1900 THEN replace_year(p0, n.y) ELSE p0, LAMBDA p1 :
             IF p1.ok THEN strftime_date(p1.year, p1.month, p1.day, pads)
             ELSE try_formats_inspector(s, k + 1, n, pads)))

normalize_date_inspector(s, n, pads) ==
    IF s = <<>> THEN Today(n, pads) ELSE try_formats_inspector(s, 1, n, pads)

NormalizeDateOf(v, s, n, pads) ==
    CASE v = "smart"     -> normalize_date(s, n, pads)
      [] v = "complete"  -> normalize_date_complete(s, n, pads)
      [] v = "inspector" -> normalize_date_inspector(s, n, pads)

(***************************************************************************)
(* normalize_time, three copies                                            *)
(***************************************************************************)
FmtHM  == <<"%H", ":", "%M">>
FmtIMp == <<"%I", ":", "%M", " ", "%p">>
FmtIp  == <<"%I", " ", "%p">>
FmtH   == <<"%H">>

time_formats == <<FmtHM, FmtIMp, FmtIp, FmtH>>

time_formats_inspector == <<FmtHM, FmtIMp, FmtIp>>

DefaultStart == <<"1", "0", ":", "0", "0">>
DefaultEnd   == <<"1", "1", ":", "0", "0">>

\* the first format of fmts[k..] that strptime accepts, reformatted with
\* strftime("%H:%M"); NoMatch when none does
RECURSIVE try_time_formats(_, _, _)
try_time_formats(s, fmts, k) ==
    IF k > Len(fmts) THEN NoMatch
    ELSE Bind(strptime(s, fmts[k]), LAMBDA p :
             IF p.ok THEN [ok |-> TRUE, text |-> strftime_time(p.hour, p.minute)]
             ELSE try_time_formats(s, fmts, k + 1))

\* position of the first digit of s, 0 when there is none
FirstDigitPos(s) ==
    IF \E i \in 1..Len(s) : s[i] \in Digits
    THEN CHOOSE i \in 1..Len(s) : s[i] \in Digits /\ \A j \in 1..(i - 1) : s[j] \notin Digits
    ELSE 0

Min(a, b) == IF a < b THEN a ELSE b

\* re.search(r'(\d{1,2}):?(\d{0,2})\s*(am|pm)?', s): the leftmost match
\* starts at the first digit; every later part of the pattern is optional
time_regex(s) ==
    Bind(FirstDigitPos(s), LAMBDA i :
    IF i = 0 THEN NoMatch
    ELSE Bind(Min(2, DigitRun(s, i)), LAMBDA n1 :
         Bind(IF i + n1 <= Len(s) /\ s[i + n1] = ":" THEN i + n1 + 1 ELSE i + n1, LAMBDA j :
         Bind(Min(2, DigitRun(s, j)), LAMBDA n2 :
         Bind(j + n2 + SpaceRun(s, j + n2), LAMBDA q :
             [ok |-> TRUE, g1 |-> NumVal(s, i, n1),
              g2 |-> IF n2 = 0 THEN 0 ELSE NumVal(s, j, n2),
              g3 |-> IF StartsWithAt(s, q, <<"a", "m">>) THEN "am"
                     ELSE IF StartsWithAt(s, q, <<"p", "m">>) THEN "pm" ELSE "none"])))))

\* the regex fallback of normalize_time
time_fallback(s) ==
    Bind(time_regex(Lower(s)), LAMBDA mt :
    IF ~mt.ok THEN DefaultStart
    ELSE LET hour == IF mt.g3 = "pm" /\ mt.g1 # 12 THEN mt.g1 + 12
                     ELSE IF mt.g3 = "am" /\ mt.g1 = 12 THEN 0
                     ELSE mt.g1
         IN  Pad2(hour) \o <<":">> \o Pad2(mt.g2))

\* test_smart_booking.normalize_time
normalize_time(s) ==
    IF s = <<>> THEN DefaultStart
    ELSE Bind(try_time_formats(s, time_formats, 1),
              LAMBDA f : IF f.ok THEN f.text ELSE time_fallback(s))

\* test_complete_booking.normalize_time
normalize_time_complete(s) ==
    IF s = <<>> THEN DefaultStart
    ELSE Bind(try_time_formats(s, time_formats, 1),
              LAMBDA f : IF f.ok THEN f.text ELSE time_fallback(s))

\* test_form_inspector.normalize_time: three formats, no fallback
normalize_time_inspector(s) ==
    IF s = <<>> THEN DefaultStart
    ELSE Bind(try_time_formats(s, time_formats_inspector, 1),
              LAMBDA f : IF f.ok THEN f.text ELSE DefaultStart)

NormalizeTimeOf(v, s) ==
    CASE v = "smart"     -> normalize_time(s)
      [] v = "complete"  -> normalize_time_complete(s)
      [] v = "inspector" -> normalize_time_inspector(s)

(***************************************************************************)
(* calculate_end_time, three copies                                        *)
(***************************************************************************)
StrMinute == <<"m", "i", "n", "u", "t", "e">>
StrHour   == <<"h", "o", "u", "r">>

\* map(int, start_time.split(':')) unpacked into two names: defined when
\* the text is digits, one colon, digits
split_start(s) ==
    Bind(DigitRun(s, 1), LAMBDA n1 :
    Bind(DigitRun(s, n1 + 2), LAMBDA n2 :
        IF n1 >= 1 /\ n1 + 1 <= Len(s) /\ s[n1 + 1] = ":" /\ n2 >= 1 /\ n1 + 1 + n2 = Len(s)
        THEN [ok |-> TRUE, hour |-> NumVal(s, 1, n1), min |-> NumVal(s, n1 + 2, n2)]
        ELSE NoMatch))

\* int(re.findall(r'\d+', s)[0]); -1 when there is no digit
FirstInt(s) ==
    Bind(FirstDigitPos(s), LAMBDA i : IF i = 0 THEN -1 ELSE NumVal(s, i, DigitRun(s, i)))

\* the hour is not reduced modulo 24
end_of_nowrap(start, duration_minutes) ==
    LET total_minutes == start.hour * 60 + start.min + duration_minutes
    IN  Pad2(total_minutes \div 60) \o <<":">> \o Pad2(total_minutes % 60)

end_of(start, duration_minutes) ==
    LET total_minutes == start.hour * 60 + start.min + duration_minutes
    IN  Pad2((total_minutes \div 60) % 24) \o <<":">> \o Pad2(total_minutes % 60)

\* smart and complete copies: 'minute' is looked for before 'hour'
duration_minutes(d) ==
    IF Contains(d, StrMinute) THEN (IF FirstInt(d) >= 0 THEN FirstInt(d) ELSE 60)
    ELSE IF Contains(d, StrHour) THEN (IF FirstInt(d) >= 0 THEN FirstInt(d) * 60 ELSE 60)
    ELSE 60

\* inspector copy: 'hour' is looked for before 'minute'
duration_min_inspector(d) ==
    IF Contains(d, StrHour) THEN (IF FirstInt(d) >= 0 THEN FirstInt(d) * 60 ELSE 60)
    ELSE IF Contains(d, StrMinute) THEN (IF FirstInt(d) >= 0 THEN FirstInt(d) ELSE 60)
    ELSE 60

\* A duration is a JSON value (see below): only a text supports the "in"
\* tests; any other value raises TypeError inside the try block.

\* test_smart_booking.calculate_end_time
calculate_end_time(start_time, duration) ==
    Bind(split_start(start_time), LAMBDA st :
    IF ~st.ok THEN DefaultEnd
    ELSE IF duration.t # "str" THEN Pad2((st.hour + 1) % 24) \o <<":">> \o Pad2(st.min)
    ELSE end_of(st, duration_minutes(duration.s)))

\* test_complete_booking.calculate_end_time
calculate_end_time_complete(start_time, duration) ==
    Bind(split_start(start_time), LAMBDA st :
    IF ~st.ok THEN DefaultEnd
    ELSE IF duration.t # "str" THEN Pad2((st.hour + 1) % 24) \o <<":">> \o Pad2(st.min)
    ELSE end_of(st, duration_minutes(duration.s)))

\* test_form_inspector.calculate_end_time
calculate_end_time_inspector(start_time, duration) ==
    Bind(split_start(start_time), LAMBDA st :
    IF ~st.ok \/ duration.t # "str" THEN DefaultEnd
    ELSE end_of(st, duration_min_inspector(duration.s)))

CalculateEndTimeOf(v, s, d) ==
    CASE v = "smart"     -> calculate_end_time(s, d)
      [] v = "complete"  -> calculate_end_time_complete(s, d)
      [] v = "inspector" -> calculate_end_time_inspector(s, d)

(***************************************************************************)
(* extract_criteria_from_ai_response, three copies.  A field of the        *)
(* model's reply is a JSON value [t, s, n]: a text (t = "str", s), a       *)
(* number (t = "int", n), a list (t = "list"), null (t = "null") or a      *)
(* missing key (t = "absent").                                             *)
(***************************************************************************)
JNull   == [t |-> "null", s |-> <<>>, n |-> 0]
JStr(x) == [t |-> "str",  s |-> x,    n |-> 0]
JInt(k) == [t |-> "int",  s |-> <<>>, n |-> k]
JList   == [t |-> "list", s |-> <<>>, n |-> 0]
\* the key is missing from the reply
JAbsent == [t |-> "absent", s |-> <<>>, n |-> 0]

\* Python truth value: None, "" and 0 are false (the list stands for a
\* non-empty one)
Truthy(j) ==
    \/ j.t = "str" /\ j.s # <<>>
    \/ j.t = "int" /\ j.n # 0
    \/ j.t = "list"

DefaultCapacity == 8

StrMeeting == <<"M", "e", "e", "t", "i", "n", "g">>

StrOneHour == <<"1", " ", "h", "o", "u", "r">>

\* normalize_date / normalize_time applied to a JSON value: a value that is
\* not a text raises inside the function, whose handler returns the default
date_of_json(v, j, n, pads) ==
    IF j.t = "str" THEN NormalizeDateOf(v, j.s, n, pads) ELSE Today(n, pads)

time_of_json(v, j) ==
    IF j.t = "str" THEN NormalizeTimeOf(v, j.s) ELSE DefaultStart

\* re.search(r'(\d{1,2})\s*-\s*(\d{1,2})\s*(am|pm)', s) matches at i
range_at(s, i) ==
    Bind(DigitRun(s, i), LAMBDA r1 :
    Bind(i + r1 + SpaceRun(s, i + r1), LAMBDA j :
    Bind(j + 1 + SpaceRun(s, j + 1), LAMBDA k :
    Bind(DigitRun(s, k), LAMBDA r2 :
    Bind(k + r2 + SpaceRun(s, k + r2), LAMBDA q :
        IF /\ r1 \in {1, 2}
           /\ j <= Len(s) /\ s[j] = "-"
           /\ r2 \in {1, 2}
           /\ (StartsWithAt(s, q, <<"a", "m">>) \/ StartsWithAt(s, q, <<"p", "m">>))
        THEN [ok |-> TRUE, g1 |-> NumVal(s, i, r1), g2 |-> NumVal(s, k, r2),
              g3 |-> IF StartsWithAt(s, q, <<"a", "m">>) THEN "am" ELSE "pm"]
        ELSE NoMatch)))))

\* the loop over time_range_patterns: only the first pattern has three
\* groups, so only its match sets the times (the matches of the other two
\* patterns are found and ignored)
time_range(request) ==
    Bind(Lower(request), LAMBDA s :
    Bind({i \in 1..Len(s) : range_at(s, i).ok}, LAMBDA ps :
        IF ps = {} THEN NoMatch
        ELSE Bind(range_at(s, CHOOSE i \in ps : \A z \in ps : i <= z), LAMBDA mt :
             LET shift == mt.g3 = "pm" /\ mt.g1 # 12
                 start_hour == IF shift THEN mt.g1 + 12
                               ELSE IF mt.g3 = "am" /\ mt.g1 = 12 THEN 0 ELSE mt.g1
                 end_hour   == IF shift THEN mt.g2 + 12
                               ELSE IF mt.g3 = "am" /\ mt.g1 # 12 /\ mt.g2 = 12 THEN 0
                               ELSE mt.g2
             IN  [ok |-> TRUE,
                  start_time |-> Pad2(start_hour) \o <<":", "0", "0">>,
                  end_time   |-> Pad2(end_hour) \o <<":", "0", "0">>])))

\* re.search(r'(\d+)\s*(?:people|attendees|participants)', s) matches at i
\* with the digits s[i .. i+r-1]; \d+ gives back digits only inside a run,
\* where the next character is a digit, so the whole run is taken
people_at(s, i) ==
    Bind(DigitRun(s, i), LAMBDA r :
    Bind(i + r + SpaceRun(s, i + r), LAMBDA q :
        /\ r >= 1
        /\ \/ StartsWithAt(s, q, <<"p", "e", "o", "p", "l", "e">>)
           \/ StartsWithAt(s, q, <<"a", "t", "t", "e", "n", "d", "e", "e", "s">>)
           \/ StartsWithAt(s, q, <<"p", "a", "r", "t", "i", "c", "i", "p", "a", "n", "t", "s">>)))

capacity_of_request(request) ==
    Bind(Lower(request), LAMBDA s :
    Bind({i \in 1..Len(s) : people_at(s, i)}, LAMBDA ps :
        IF ps = {} THEN JInt(DefaultCapacity)
        ELSE Bind(CHOOSE x \in ps : \A z \in ps : x <= z, LAMBDA i :
                 JInt(NumVal(s, i, DigitRun(s, i))))))

\* the capacity branch taken for a capacity the reply carries: the first
\* run of digits of a text (the field is left as it was when the text has
\* none), the number itself, the default when int() raises
capacity_of_json(j, unset) ==
    IF j.t = "str" THEN (IF FirstInt(j.s) >= 0 THEN JInt(FirstInt(j.s)) ELSE unset)
    ELSE IF j.t = "int" THEN JInt(j.n)
    ELSE JInt(DefaultCapacity)

\* test_smart_booking.extract_criteria_from_ai_response
extract_criteria_from_ai_response(extracted, original_request, n, pads) ==
    Bind(time_range(original_request), LAMBDA rng :
    Bind(IF rng.ok THEN rng.start_time
         ELSE IF Truthy(extracted.start_time)
              THEN time_of_json("smart", extracted.start_time)
              ELSE DefaultStart, LAMBDA start :
    LET end   == IF rng.ok THEN rng.end_time
                 ELSE IF ~Truthy(extracted.start_time) THEN DefaultEnd
                 ELSE IF Truthy(extracted.end_time)
                      THEN time_of_json("smart", extracted.end_time)
                 ELSE IF Truthy(extracted.duration)
                      THEN calculate_end_time(start, extracted.duration)
                 ELSE calculate_end_time(start, JStr(StrOneHour))
    IN  [date |-> IF Truthy(extracted.date)
                  THEN date_of_json("smart", extracted.date, n, pads)
                  ELSE Today(n, pads),
         start_time |-> start,
         end_time |-> end,
         capacity |-> IF Truthy(extracted.capacity)
                      THEN capacity_of_json(extracted.capacity, JNull)
                      ELSE capacity_of_request(original_request),
         location |-> IF extracted.location.t = "absent" THEN JNull ELSE extracted.location]))

\* test_complete_booking.extract_criteria_from_ai_response
extract_criteria_complete(extracted, original_request, n, pads) ==
    Bind(IF Truthy(extracted.start_time)
         THEN time_of_json("complete", extracted.start_time)
         ELSE DefaultStart, LAMBDA start :
    LET end   == IF ~Truthy(extracted.start_time) THEN DefaultEnd
                 ELSE IF Truthy(extracted.duration)
                      THEN calculate_end_time_complete(start, extracted.duration)
                 ELSE calculate_end_time_complete(start, JStr(StrOneHour))
    IN  [date |-> IF Truthy(extracted.date)
                  THEN date_of_json("complete", extracted.date, n, pads)
                  ELSE Today(n, pads),
         start_time |-> start,
         end_time |-> end,
         capacity |-> IF Truthy(extracted.capacity)
                      THEN capacity_of_json(extracted.capacity, JNull)
                      ELSE JInt(DefaultCapacity),
         location |-> IF extracted.location.t = "absent" THEN JNull ELSE extracted.location])

\* test_form_inspector.extract_criteria_from_ai_response
extract_criteria_inspector(extracted, n, pads) ==
    Bind(IF Truthy(extracted.start_time)
         THEN time_of_json("inspector", extracted.start_time)
         ELSE DefaultStart, LAMBDA start :
    LET end   == IF Truthy(extracted.duration)
                 THEN calculate_end_time_inspector(start, extracted.duration)
                 ELSE calculate_end_time_inspector(start, JStr(StrOneHour))
    IN  [date |-> IF Truthy(extracted.date)
                  THEN date_of_json("inspector", extracted.date, n, pads)
                  ELSE Today(n, pads),
         start_time |-> start,
         end_time |-> end,
         capacity |-> IF Truthy(extracted.capacity)
                      THEN capacity_of_json(extracted.capacity, JInt(DefaultCapacity))
                      ELSE JInt(DefaultCapacity),
         location |-> IF extracted.location.t = "absent" THEN JNull ELSE extracted.location,
         purpose |-> IF extracted.purpose.t = "absent" THEN JStr(StrMeeting) ELSE extracted.purpose])

ExtractCriteriaOf(v, extracted, original_request, n, pads) ==
    CASE v = "smart"     -> extract_criteria_from_ai_response(extracted, original_request, n, pads)
      [] v = "complete"  -> extract_criteria_complete(extracted, original_request, n, pads)
      [] v = "inspector" -> extract_criteria_inspector(extracted, n, pads)

(***************************************************************************)
(* FormInspector: the inventory is a sequence of field records [tag, type, *)
(* name, id, placeholder, label, class, parent, options]; an attribute     *)
(* that is absent is the empty text.  Scores are counted in tenths; the    *)
(* code adds 0.3, 0.4 and 0.2 in floating point and compares with 0.5,     *)
(* whose only exact occurrence, 0.3 + 0.2, is exact in floating point too. *)
(***************************************************************************)
Requirements == <<"date", "start_time", "end_time", "duration", "capacity", "location", "purpose">>

field_patterns ==
    [date |->
        [keywords |-> <<<<"d", "a", "t", "e">>, <<"d", "a", "y">>, <<"w", "h", "e", "n">>, <<"c", "a", "l", "e", "n", "d", "a", "r">>>>,
         types |-> {"date", "text"}],
     start_time |->
        [keywords |-> <<<<"s", "t", "a", "r", "t">>, <<"f", "r", "o", "m">>, <<"b", "e", "g", "i", "n">>, <<"s", "t", "a", "r", "t", "i", "n", "g">>>>,
         types |-> {"time", "select", "text"}],
     end_time |->
        [keywords |-> <<<<"e", "n", "d">>, <<"t", "o">>, <<"u", "n", "t", "i", "l">>, <<"e", "n", "d", "i", "n", "g">>, <<"f", "i", "n", "i", "s", "h">>>>,
         types |-> {"time", "select", "text"}],
     duration |->
        [keywords |-> <<<<"d", "u", "r", "a", "t", "i", "o", "n">>, <<"l", "e", "n", "g", "t", "h">>, <<"h", "o", "u", "r", "s">>, <<"m", "i", "n", "u", "t", "e", "s">>>>,
         types |-> {"select", "text", "number"}],
     capacity |->
        [keywords |-> <<<<"c", "a", "p", "a", "c", "i", "t", "y">>, <<"p", "e", "o", "p", "l", "e">>, <<"a", "t", "t", "e", "n", "d", "e", "e", "s">>, <<"s", "i", "z", "e">>, <<"o", "c", "c", "u", "p", "a", "n", "c", "y">>, <<"s", "e", "a", "t", "s">>>>,
         types |-> {"number", "select", "text"}],
     location |->
        [keywords |-> <<<<"l", "o", "c", "a", "t", "i", "o", "n">>, <<"b", "u", "i", "l", "d", "i", "n", "g">>, <<"w", "h", "e", "r", "e">>, <<"p", "l", "a", "c", "e">>, <<"r", "o", "o", "m">>>>,
         types |-> {"select", "text"}],
     purpose |->
        [keywords |-> <<<<"p", "u", "r", "p", "o", "s", "e">>, <<"r", "e", "a", "s", "o", "n">>, <<"d", "e", "s", "c", "r", "i", "p", "t", "i", "o", "n">>, <<"t", "i", "t", "l", "e">>, <<"e", "v", "e", "n", "t">>, <<"m", "e", "e", "t", "i", "n", "g">>>>,
         types |-> {"text", "textarea"}]]

MatchThreshold == 5

\* ' '.join(texts)
RECURSIVE JoinBlank(_)
JoinBlank(texts) ==
    IF Len(texts) = 0 THEN <<>>
    ELSE IF Len(texts) = 1 THEN texts[1]
    ELSE texts[1] \o <<" ">> \o JoinBlank(Tail(texts))

\* FormInspector._get_field_text
get_field_text(field) ==
    JoinBlank(SelectSeq(<<field.name, field.id, field.placeholder, field.label,
                          field.class, field.parent>>,
                        LAMBDA x : x # <<>>))

\* the number of keywords that occur in the text
KeywordHits(keywords, text) == Cardinality({k \in 1..Len(keywords) : Contains(text, keywords[k])})

\* the score without the bonus of the special checks for the element's type
calculate_match_score_nobonus(field, field_text, pattern) ==
    LET kw  == 3 * KeywordHits(pattern.keywords, field_text)
        ty  == IF field.type \in pattern.types THEN 3 ELSE 0
        opt == IF Len(field.options) > 0
                  /\ KeywordHits(pattern.keywords, Lower(JoinBlank(field.options))) > 0
               THEN 2 ELSE 0
    IN  Min(kw + ty + opt, 10)

\* FormInspector._calculate_match_score, in tenths
calculate_match_score(field, field_text, pattern) ==
    LET kw  == 3 * KeywordHits(pattern.keywords, field_text)
        ty  == IF field.type \in pattern.types THEN 3 ELSE 0
        sp  == IF field.type = "date" THEN 4
               ELSE IF field.type = "time" THEN 3
               ELSE IF field.type = "number"
                       /\ \E k \in 1..Len(pattern.keywords) : pattern.keywords[k] = <<"c", "a", "p", "a", "c", "i", "t", "y">>
                    THEN 2
               ELSE 0
        opt == IF Len(field.options) > 0
                  /\ KeywordHits(pattern.keywords, Lower(JoinBlank(field.options))) > 0
               THEN 2 ELSE 0
    IN  Min(kw + ty + sp + opt, 10)

\* the score of inventory element i for a requirement, as analyze_and_map_fields
\* computes it (the field text is lower-cased first)
ScoreOf(fields, i, req) ==
    calculate_match_score(fields[i], Lower(get_field_text(fields[i])), field_patterns[req])

\* the inner loop of analyze_and_map_fields for one field: a requirement
\* that is already found is skipped, any other one whose score passes the
\* threshold takes the field
\* a score equal to the threshold is taken as a match
RECURSIVE map_one_field_ge(_, _, _, _)
map_one_field_ge(fields, i, r, found) ==
    IF r > Len(Requirements) THEN found
    ELSE LET req == Requirements[r] IN
         IF found[req] # 0 THEN map_one_field_ge(fields, i, r + 1, found)
         ELSE IF ScoreOf(fields, i, req) >= MatchThreshold
              THEN map_one_field_ge(fields, i, r + 1, [found EXCEPT ![req] = i])
              ELSE map_one_field_ge(fields, i, r + 1, found)

RECURSIVE map_one_field(_, _, _, _)
map_one_field(fields, i, r, found) ==
    IF r > Len(Requirements) THEN found
    ELSE LET req == Requirements[r] IN
         IF found[req] # 0 THEN map_one_field(fields, i, r + 1, found)
         ELSE IF ScoreOf(fields, i, req) > MatchThreshold
              THEN map_one_field(fields, i, r + 1, [found EXCEPT ![req] = i])
              ELSE map_one_field(fields, i, r + 1, found)

RECURSIVE map_fields(_, _, _)
map_fields(fields, i, found) ==
    IF i > Len(fields) THEN found
    ELSE map_fields(fields, i + 1, map_one_field(fields, i, 1, found))

NothingFound == [req \in {Requirements[r] : r \in 1..Len(Requirements)} |-> 0]

\* FormInspector.analyze_and_map_fields: for every requirement the index of
\* the field it is mapped to (0: not mapped), the unmapped requirements and
\* the indices of the fields no requirement is mapped to
analyze_and_map_fields(fields) ==
    Bind(map_fields(fields, 1, NothingFound), LAMBDA found :
        [field_mappings |-> found,
         unmapped |-> {req \in DOMAIN found : found[req] = 0},
         unidentified |-> {i \in 1..Len(fields) : \A req \in DOMAIN found : found[req] # i}])

\* fill_form_with_mappings (test_form_inspector): the number of fields
\* written.  clear() and send_keys() succeed on an input or a textarea and
\* raise on a select, which is not editable; the handler of each block
\* swallows the exception and the field is not counted.
fill_text(field) == IF field.tag = "select" THEN 0 ELSE 1

\* a time select is written when one of its options contains the time
fill_time(field, text) ==
    IF field.tag = "select"
    THEN (IF \E k \in 1..Len(field.options) : Contains(field.options[k], text) THEN 1 ELSE 0)
    ELSE 1

\* re.search(r'(\d+)\s*-\s*(\d+)', text) matches at i
cap_range_at(text, i) ==
    Bind(DigitRun(text, i), LAMBDA r1 :
    Bind(i + r1 + SpaceRun(text, i + r1), LAMBDA j :
    Bind(j + 1 + SpaceRun(text, j + 1), LAMBDA k :
        IF r1 >= 1 /\ j <= Len(text) /\ text[j] = "-" /\ DigitRun(text, k) >= 1
        THEN [ok |-> TRUE, min_cap |-> NumVal(text, i, r1),
              max_cap |-> NumVal(text, k, DigitRun(text, k))]
        ELSE NoMatch)))

\* the leftmost match is a range around the capacity
range_covers(text, capacity) ==
    Bind({i \in 1..Len(text) : cap_range_at(text, i).ok}, LAMBDA ps :
        /\ ps # {}
        /\ Bind(cap_range_at(text, CHOOSE i \in ps : \A z \in ps : i <= z), LAMBDA mt :
                mt.min_cap <= capacity /\ capacity <= mt.max_cap))

\* a capacity select is written when an option contains the number or is a
\* range around it
fill_capacity(field, capacity) ==
    IF field.tag = "select"
    THEN (IF \E k \in 1..Len(field.options) :
                \/ Contains(field.options[k], Dec(capacity))
                \/ range_covers(field.options[k], capacity)
          THEN 1 ELSE 0)
    ELSE 1

\* a location select is written when an option contains the location,
\* letter case ignored
fill_location(field, location) ==
    IF field.tag = "select"
    THEN (IF \E k \in 1..Len(field.options) :
                Contains(Lower(field.options[k]), Lower(location))
          THEN 1 ELSE 0)
    ELSE 1

fill_form_with_mappings(fields, mappings, criteria) ==
    LET date  == IF mappings.date # 0 /\ criteria.date # <<>>
                 THEN fill_text(fields[mappings.date]) ELSE 0
        start == IF mappings.start_time # 0 /\ criteria.start_time # <<>>
                 THEN fill_time(fields[mappings.start_time], criteria.start_time) ELSE 0
        end   == IF mappings.end_time # 0 /\ criteria.end_time # <<>>
                 THEN fill_time(fields[mappings.end_time], criteria.end_time) ELSE 0
        cap   == IF mappings.capacity # 0 /\ Truthy(criteria.capacity)
                 THEN fill_capacity(fields[mappings.capacity], criteria.capacity.n) ELSE 0
        loc   == IF mappings.location # 0 /\ criteria.location.t = "str" /\ Truthy(criteria.location)
                 THEN fill_location(fields[mappings.location], criteria.location.s) ELSE 0
        purp  == IF mappings.purpose # 0 /\ criteria.purpose.t = "str" /\ Truthy(criteria.purpose)
                 THEN fill_text(fields[mappings.purpose]) ELSE 0
    IN  Bind(date + start + end + cap + loc + purp, LAMBDA success_count :
             [success_count |-> success_count, success |-> success_count > 0])

(***************************************************************************)
(* Inputs                                                                  *)
(***************************************************************************)
UpperChar(c) ==
    CASE c = "a" -> "A" [] c = "d" -> "D" [] c = "f" -> "F" [] c = "j" -> "J"
      [] c = "m" -> "M" [] c = "n" -> "N" [] c = "o" -> "O" [] c = "s" -> "S"
      [] OTHER -> c

Capitalize(w) == <<UpperChar(w[1])>> \o SubSeq(w, 2, Len(w))

\* the moments at which the functions are called: year, month, day and
\* whether the clock is past midnight (t = 1) or exactly at it (t = 0)
NowYears == {2027, 2028}
NowDays  == {<<1, 15>>, <<2, 29>>, <<3, 1>>, <<8, 16>>}
Nows ==
    {[y |-> y, m |-> md[1], d |-> md[2], t |-> t] :
        y \in NowYears, md \in {x \in NowDays : TRUE}, t \in {0, 1}}
    \ {n \in [y : NowYears, m : {2}, d : {29}, t : {0, 1}] : ~IsLeap(n.y)}

Now0 == [y |-> 2027, m |-> 8, d |-> 16, t |-> 1]

StrYears  == {999, 1900, 2027, 2028, 2029}
StrMonths == {1, 2, 8, 12}
StrDays   == {1, 16, 29, 31}

Num(n, padded) == IF padded THEN Pad2(n) ELSE Dec(n)

\* date strings in the seven supported formats, valid or not as calendar dates
IsoStrings ==
    {Pad4(y) \o <<"-">> \o Num(m, z) \o <<"-">> \o Num(d, z) :
        y \in StrYears, m \in StrMonths, d \in StrDays, z \in BOOLEAN}
SlashStrings ==
    {Num(m, z) \o <<"/">> \o Num(d, z) \o <<"/">> \o Pad4(y) :
        y \in StrYears, m \in StrMonths, d \in StrDays, z \in BOOLEAN}
DashStrings ==
    {Num(m, z) \o <<"-">> \o Num(d, z) \o <<"-">> \o Pad4(y) :
        y \in StrYears, m \in StrMonths, d \in StrDays, z \in BOOLEAN}
NameOf(m, long) == Capitalize(IF long THEN MonthNames[m] ELSE MonthAbbrs[m])
MonthDayStrings ==
    {NameOf(m, l) \o <<" ">> \o Dec(d) : m \in StrMonths, d \in StrDays, l \in BOOLEAN}
MonthDayYearStrings ==
    {NameOf(m, l) \o <<" ">> \o Dec(d) \o <<",", " ">> \o Pad4(y) :
        y \in StrYears, m \in StrMonths, d \in StrDays, l \in BOOLEAN}

SupportedDateStrings ==
    IsoStrings \cup SlashStrings \cup DashStrings \cup MonthDayStrings \cup MonthDayYearStrings

OtherDateStrings ==
    {<<>>, <<"N", "o", "n", "e">>, <<"n", "u", "l", "l">>,
     <<"t", "o", "m", "o", "r", "r", "o", "w">>}

DateStrings == SupportedDateStrings \cup OtherDateStrings

Variants == {"smart", "complete", "inspector"}

\* the calendar date a string Y-M-D denotes, as <<year, month, day>>
DateOf(s) ==
    LET n1 == DigitRun(s, 1)
        n2 == DigitRun(s, n1 + 2)
        n3 == DigitRun(s, n1 + n2 + 3)
    IN  <<NumVal(s, 1, n1), NumVal(s, n1 + 2, n2), NumVal(s, n1 + n2 + 3, n3)>>

\* a string of the canonical form YYYY-MM-DD that names a calendar date
IsIsoDate(s) ==
    /\ Len(s) = 10
    /\ \A i \in {1, 2, 3, 4, 6, 7, 9, 10} : s[i] \in Digits
    /\ s[5] = "-" /\ s[8] = "-"
    /\ DateOf(s)[1] >= 1
    /\ DateOf(s)[2] \in 1..12
    /\ DateOf(s)[3] \in 1..DaysIn(DateOf(s)[1], DateOf(s)[2])

DayBefore(a, b) ==
    \/ a[1] < b[1]
    \/ a[1] = b[1] /\ a[2] < b[2]
    \/ a[1] = b[1] /\ a[2] = b[2] /\ a[3] < b[3]

\* clock strings: hours and minutes in the shapes a model reply uses
ClockHours == {0, 2, 9, 11, 12, 13, 14, 23, 24}
ClockMins  == {0, 5, 30, 59}

Colon(h, m) == Dec(h) \o <<":">> \o Pad2(m)

TimeStrings ==
    {Colon(h, m) : h \in ClockHours, m \in ClockMins}
    \cup {Pad2(h) \o <<":">> \o Pad2(m) : h \in ClockHours, m \in ClockMins}
    \cup {Colon(h, m) \o x : h \in ClockHours, m \in ClockMins,
                             x \in {<<" ", "A", "M">>, <<" ", "P", "M">>, <<"a", "m">>, <<"p", "m">>}}
    \cup {Dec(h) \o x : h \in ClockHours, x \in {<<" ", "A", "M">>, <<" ", "P", "M">>, <<"a", "m">>, <<"p", "m">>, <<>>}}
    \cup {Dec(h) \o Pad2(m) : h \in ClockHours, m \in ClockMins}
    \cup {<<>>, <<"n", "o", "o", "n">>, <<"2", "5", ":", "9", "9">>, <<"a", "t", " ", "3">>}

\* start times and durations for calculate_end_time
MaxMinutes == 120
MaxHours == 26

StartTimes == {<<"0", "0", ":", "0", "0">>, <<"0", "9", ":", "0", "7">>, <<"1", "0", ":", "0", "0">>, <<"2", "3", ":", "3", "0">>, <<"2", "3", ":", "5", "9">>}

MinutesText(d) == Dec(d) \o <<" ", "m", "i", "n", "u", "t", "e", "s">>
HoursText(h) == Dec(h) \o (IF h = 1 THEN <<" ", "h", "o", "u", "r">> ELSE <<" ", "h", "o", "u", "r", "s">>)

Durations ==
    {JStr(MinutesText(d)) : d \in 0..MaxMinutes}
    \cup {JStr(HoursText(h)) : h \in 0..MaxHours}
    \cup {JStr(<<"1", " ", "h", "o", "u", "r", " ", "3", "0", " ", "m", "i", "n", "u", "t", "e", "s">>), JStr(<<"4", "5", " ", "m", "i", "n">>), JStr(<<"a", "n", " ", "h", "o", "u", "r">>),
          JStr(<<>>), JInt(2), JNull}

EndTimeArgs == [start_time : StartTimes \cup {<<"2", "5", ":", "9", "9">>, <<"1", "0">>}, duration : Durations]

\* replies of the language model and request texts
Replies ==
    [date : {JNull, JStr(<<"A", "u", "g", "u", "s", "t", " ", "2", "0">>)},
     start_time : {JNull, JStr(<<"2", ":", "0", "0", " ", "P", "M">>), JStr(<<"1", "4", ":", "0", "0">>), JStr(<<"2", "5", ":", "9", "9">>),
                   JStr(<<"9", "3", "0">>), JInt(14)},
     end_time : {JNull, JStr(<<"4", ":", "0", "0", " ", "P", "M">>), JStr(<<"1", "3", "p", "m">>)},
     duration : {JNull, JStr(<<"2", " ", "h", "o", "u", "r", "s">>), JStr(<<"9", "0", " ", "m", "i", "n", "u", "t", "e", "s">>), JInt(2)},
     capacity : {JNull, JStr(<<"4", "0", " ", "p", "e", "o", "p", "l", "e">>), JStr(<<"l", "a", "r", "g", "e">>), JInt(10), JInt(0), JList},
     location : {JNull},
     purpose : {JAbsent}]

Requests ==
    {<<"C", "o", "n", "f", "e", "r", "e", "n", "c", "e", " ", "r", "o", "o", "m", " ", "t", "o", "m", "o", "r", "r", "o", "w", " ", "2", "-", "4", " ", "P", "M">>,
     <<"m", "e", "e", "t", "i", "n", "g", " ", "1", "0", "-", "1", "2", "p", "m">>,
     <<"r", "o", "o", "m", " ", "t", "o", "m", "o", "r", "r", "o", "w", " ", "f", "o", "r", " ", "1", "5", " ", "p", "e", "o", "p", "l", "e">>,
     <<"b", "o", "o", "k", " ", "1", "0", "a", "m", "-", "1", "1", "a", "m">>}

ExtractArgs == [extracted : Replies, original_request : Requests]

\* page elements
Field(tag, type, name, id, placeholder, label, class, parent, options) ==
    [tag |-> tag, type |-> type, name |-> name, id |-> id, placeholder |-> placeholder,
     label |-> label, class |-> class, parent |-> parent, options |-> options]

Options24 == <<<<"1", "3", ":", "0", "0">>, <<"1", "4", ":", "0", "0">>, <<"1", "6", ":", "0", "0">>>>
Options12 == <<<<"1", ":", "0", "0", " ", "P", "M">>, <<"2", ":", "0", "0", " ", "P", "M">>, <<"4", ":", "0", "0", " ", "P", "M">>>>

DateInput       == Field("input", "date", <<"d", "a", "t", "e">>, <<"d", "a", "t", "e">>, <<>>, <<>>, <<>>, <<>>, <<>>)
BareDateInput   == Field("input", "date", <<>>, <<>>, <<>>, <<>>, <<>>, <<>>, <<>>)
DateFromInput   == Field("input", "text", <<"d", "a", "t", "e", "_", "f", "r", "o", "m">>, <<>>, <<>>, <<"F", "r", "o", "m">>, <<>>, <<>>, <<>>)
WhenInput       == Field("input", "text", <<>>, <<>>, <<"W", "h", "e", "n", "?", " ", "(", "d", "a", "y", " ", "a", "n", "d", " ", "d", "a", "t", "e", ")">>, <<>>, <<>>, <<>>, <<>>)
CapacityInput   == Field("input", "number", <<"c", "a", "p", "a", "c", "i", "t", "y">>, <<>>, <<>>, <<>>, <<>>, <<>>, <<>>)
BareNumberInput == Field("input", "number", <<>>, <<>>, <<>>, <<>>, <<>>, <<>>, <<>>)
CommentsInput   == Field("input", "text", <<"c", "o", "m", "m", "e", "n", "t", "s">>, <<>>, <<>>, <<>>, <<>>, <<>>, <<>>)
StartSelect(o)  == Field("select", "select", <<>>, <<"s", "t", "a", "r", "t", "_", "t", "i", "m", "e">>, <<>>, <<"S", "t", "a", "r", "t", " ", "T", "i", "m", "e">>, <<>>, <<>>, o)
EndSelect(o)    == Field("select", "select", <<>>, <<"e", "n", "d", "_", "t", "i", "m", "e">>, <<>>, <<"E", "n", "d", " ", "T", "i", "m", "e">>, <<>>, <<>>, o)
CapacitySelect  == Field("select", "select", <<"c", "a", "p", "a", "c", "i", "t", "y">>, <<>>, <<>>, <<>>, <<>>, <<>>,
                         <<<<"1", "-", "5">>, <<"6", "-", "1", "0">>, <<"1", "1", "-", "2", "0">>>>)
NotesArea       == Field("textarea", "textarea", <<"n", "o", "t", "e", "s">>, <<>>, <<>>, <<"M", "e", "e", "t", "i", "n", "g", " ", "p", "u", "r", "p", "o", "s", "e">>, <<>>, <<>>, <<>>)

Catalog ==
    {DateInput, BareDateInput, DateFromInput, WhenInput, CapacityInput, BareNumberInput,
     CommentsInput, StartSelect(Options24), EndSelect(Options12), CapacitySelect, NotesArea}

\* inspect_form lists the inputs first, then the selects, then the textareas
TagRank(tag) == CASE tag = "input" -> 1 [] tag = "select" -> 2 [] tag = "textarea" -> 3

MaxFields == 3

Inventories ==
    UNION {{f \in [1..k -> Catalog] :
              /\ \A i, j \in 1..k : i < j => f[i] # f[j]
              /\ \A i, j \in 1..k : i < j => TagRank(f[i].tag) <= TagRank(f[j].tag)} :
           k \in 0..MaxFields}

\* the booking scenario: a date input, a numeric capacity input, a select
\* labelled as the start time and one labelled as the end time, whose
\* options show the clock either as HH:MM or as H:MM AM/PM
ScenarioInventories ==
    {<<DateInput, CapacityInput, StartSelect(o), EndSelect(o)>> : o \in {Options24, Options12}}

\* what the model extracts from 'Conference room for 10 people tomorrow 2-4 PM'
ScenarioReplies ==
    [date : {JStr(<<"A", "u", "g", "u", "s", "t", " ", "1", "7">>), JStr(<<"2", "0", "2", "7", "-", "0", "8", "-", "1", "7">>)},
     start_time : {JStr(<<"2", ":", "0", "0", " ", "P", "M">>), JStr(<<"1", "4", ":", "0", "0">>), JStr(<<"2", " ", "P", "M">>)},
     end_time : {JStr(<<"4", ":", "0", "0", " ", "P", "M">>)},
     duration : {JStr(<<"2", " ", "h", "o", "u", "r", "s">>), JStr(<<"1", "2", "0", " ", "m", "i", "n", "u", "t", "e", "s">>)},
     capacity : {JInt(10), JStr(<<"1", "0", " ", "p", "e", "o", "p", "l", "e">>)},
     location : {JNull},
     purpose : {JAbsent, JStr(<<"C", "o", "n", "f", "e", "r", "e", "n", "c", "e">>)}]

ScenarioArgs == [extracted : ScenarioReplies, fields : ScenarioInventories]

(***************************************************************************)
(* The calls                                                               *)
(***************************************************************************)
Ops ==
    {"normalize_date", "normalize_time", "calculate_end_time", "extract_criteria",
     "analyze_and_map_fields", "booking_workflow"}

ArgsOf(o) ==
    CASE o = "normalize_date" -> DateStrings
      [] o = "normalize_time" -> TimeStrings
      [] o = "calculate_end_time" -> EndTimeArgs
      [] o = "extract_criteria" -> ExtractArgs
      [] o = "analyze_and_map_fields" -> Inventories
      [] o = "booking_workflow" -> ScenarioArgs

\* the two form-inspector operations exist in test_form_inspector only
VariantsOf(o) ==
    IF o \in {"analyze_and_map_fields", "booking_workflow"} THEN {"inspector"} ELSE Variants

NowsOf(o) == IF o = "normalize_date" THEN Nows ELSE {Now0}

Init ==
    /\ op \in Ops
    /\ variant \in VariantsOf(op)
    /\ arg \in ArgsOf(op)
    /\ now \in NowsOf(op)
    /\ libcPadsYear \in (IF op = "normalize_date" THEN BOOLEAN ELSE {FALSE})
    /\ ret = <<>>
    /\ first = <<>>
    /\ pc = "call"
    /\ environ = <<>>
    /\ session = <<>>
    /\ history = <<>>
    /\ disk = <<>>
    /\ procs = <<>>
    /\ clock = 0
    /\ driver = "none"

NormalizeDate ==
    /\ pc = "call"
    /\ op = "normalize_date"
    /\ ret' = NormalizeDateOf(variant, arg, now, libcPadsYear)
    /\ pc' = "ret"
    /\ UNCHANGED <<now, libcPadsYear, op, variant, arg, first, environ, session, history, disk, procs, clock, driver>>

\* the result is normalized a second time
NormalizeDateAgain ==
    /\ pc = "ret"
    /\ op = "normalize_date"
    /\ first' = ret
    /\ ret' = NormalizeDateOf(variant, ret, now, libcPadsYear)
    /\ pc' = "ret2"
    /\ UNCHANGED <<now, libcPadsYear, op, variant, arg, environ, session, history, disk, procs, clock, driver>>

NormalizeTime ==
    /\ pc = "call"
    /\ op = "normalize_time"
    /\ ret' = NormalizeTimeOf(variant, arg)
    /\ pc' = "ret"
    /\ UNCHANGED <<now, libcPadsYear, op, variant, arg, first, environ, session, history, disk, procs, clock, driver>>

CalculateEndTime ==
    /\ pc = "call"
    /\ op = "calculate_end_time"
    /\ ret' = CalculateEndTimeOf(variant, arg.start_time, arg.duration)
    /\ pc' = "ret"
    /\ UNCHANGED <<now, libcPadsYear, op, variant, arg, first, environ, session, history, disk, procs, clock, driver>>

ExtractCriteria ==
    /\ pc = "call"
    /\ op = "extract_criteria"
    /\ ret' = ExtractCriteriaOf(variant, arg.extracted, arg.original_request, now, libcPadsYear)
    /\ pc' = "ret"
    /\ UNCHANGED <<now, libcPadsYear, op, variant, arg, first, environ, session, history, disk, procs, clock, driver>>

AnalyzeAndMapFields ==
    /\ pc = "call"
    /\ op = "analyze_and_map_fields"
    /\ ret' = analyze_and_map_fields(arg)
    /\ pc' = "ret"
    /\ UNCHANGED <<now, libcPadsYear, op, variant, arg, first, environ, session, history, disk, procs, clock, driver>>

\* intelligent_form_booking_workflow: the criteria are extracted, the form
\* is inspected and mapped, and the mapped fields are filled
WorkflowExtract ==
    /\ pc = "call"
    /\ op = "booking_workflow"
    /\ ret' = [criteria |-> extract_criteria_inspector(arg.extracted, now, libcPadsYear)]
    /\ pc' = "criteria"
    /\ UNCHANGED <<now, libcPadsYear, op, variant, arg, first, environ, session, history, disk, procs, clock, driver>>

WorkflowMap ==
    /\ pc = "criteria"
    /\ op = "booking_workflow"
    /\ ret' = [criteria |-> ret.criteria,
               field_mappings |-> analyze_and_map_fields(arg.fields).field_mappings]
    /\ pc' = "mapped"
    /\ UNCHANGED <<now, libcPadsYear, op, variant, arg, first, environ, session, history, disk, procs, clock, driver>>

WorkflowFill ==
    /\ pc = "mapped"
    /\ op = "booking_workflow"
    /\ ret' = [criteria |-> ret.criteria,
               field_mappings |-> ret.field_mappings,
               filled |-> fill_form_with_mappings(arg.fields, ret.field_mappings, ret.criteria)]
    /\ pc' = "ret"
    /\ UNCHANGED <<now, libcPadsYear, op, variant, arg, first, environ, session, history, disk, procs, clock, driver>>

Next ==
    \/ NormalizeDate
    \/ NormalizeDateAgain
    \/ NormalizeTime
    \/ CalculateEndTime
    \/ ExtractCriteria
    \/ AnalyzeAndMapFields
    \/ WorkflowExtract
    \/ WorkflowMap
    \/ WorkflowFill

Spec == Init /\ [][Next]_vars

(***************************************************************************)
(* MomentusAutomation (app/browser_automation.py)                          *)
(***************************************************************************)
success_indicators ==
    {<<"b", "o", "o", "k", "i", "n", "g", " ", "c", "o", "n", "f", "i", "r", "m", "e", "d">>, <<"r", "e", "s", "e", "r", "v", "a", "t", "i", "o", "n", " ", "s", "u", "c", "c", "e", "s", "s", "f", "u", "l">>, <<"b", "o", "o", "k", "i", "n", "g", " ", "c", "o", "m", "p", "l", "e", "t", "e">>,
     <<"r", "e", "s", "e", "r", "v", "e", "d", " ", "s", "u", "c", "c", "e", "s", "s", "f", "u", "l", "l", "y">>, <<"c", "o", "n", "f", "i", "r", "m", "a", "t", "i", "o", "n", " ", "n", "u", "m", "b", "e", "r">>, <<"b", "o", "o", "k", "i", "n", "g", " ", "r", "e", "f", "e", "r", "e", "n", "c", "e">>}

search_indicators == {<<"a", "v", "a", "i", "l", "a", "b", "l", "e", " ", "r", "o", "o", "m">>, <<"s", "e", "a", "r", "c", "h", " ", "r", "e", "s", "u", "l", "t">>}

error_indicators == {<<"e", "r", "r", "o", "r">>, <<"n", "o", "t", " ", "a", "v", "a", "i", "l", "a", "b", "l", "e">>, <<"c", "o", "n", "f", "l", "i", "c", "t">>, <<"i", "n", "v", "a", "l", "i", "d">>}

\* any(indicator in page_source for indicator in indicators)
AnyIn(page_source, indicators) == \E w \in indicators : Contains(page_source, w)

\* the error markers are looked for first
handle_momentus_response_errfirst(page) ==
    IF page.raises THEN "error"
    ELSE Bind(Lower(page.text), LAMBDA page_source :
         IF AnyIn(page_source, error_indicators) THEN "error"
         ELSE IF AnyIn(page_source, success_indicators) THEN "booking_success"
         ELSE IF AnyIn(page_source, search_indicators) THEN "search_results"
         ELSE "unknown")

\* MomentusAutomation._handle_momentus_response: the type of the record
\* returned.  page.text is driver.page_source; page.raises says that reading
\* the driver raises, which the handler turns into an error record.
handle_momentus_response(page) ==
    IF page.raises THEN "error"
    ELSE Bind(Lower(page.text), LAMBDA page_source :
         IF AnyIn(page_source, success_indicators) THEN "booking_success"
         ELSE IF AnyIn(page_source, search_indicators) THEN "search_results"
         ELSE IF AnyIn(page_source, error_indicators) THEN "error"
         ELSE "unknown")

\* pieces of page text, each with the categories of the markers it carries
Snippets ==
    {[text |-> <<"B", "o", "o", "k", "i", "n", "g", " ", "C", "o", "n", "f", "i", "r", "m", "e", "d", ".", " ">>, success |-> TRUE, search |-> FALSE, error |-> FALSE],
     [text |-> <<"Y", "o", "u", "r", " ", "c", "o", "n", "f", "i", "r", "m", "a", "t", "i", "o", "n", " ", "n", "u", "m", "b", "e", "r", " ", "i", "s", " ", "7", ".", " ">>, success |-> TRUE, search |-> FALSE, error |-> FALSE],
     [text |-> <<"3", " ", "A", "v", "a", "i", "l", "a", "b", "l", "e", " ", "R", "o", "o", "m", "s", " ">>, success |-> FALSE, search |-> TRUE, error |-> FALSE],
     [text |-> <<"S", "e", "a", "r", "c", "h", " ", "R", "e", "s", "u", "l", "t", "s", ":", " ">>, success |-> FALSE, search |-> TRUE, error |-> FALSE],
     [text |-> <<"<", "d", "i", "v", " ", "c", "l", "a", "s", "s", "=", "'", "E", "r", "r", "o", "r", "'", ">", " ">>, success |-> FALSE, search |-> FALSE, error |-> TRUE],
     [text |-> <<"R", "o", "o", "m", " ", "n", "o", "t", " ", "a", "v", "a", "i", "l", "a", "b", "l", "e", ".", " ">>, success |-> FALSE, search |-> FALSE, error |-> TRUE],
     [text |-> <<"I", "n", "v", "a", "l", "i", "d", " ", "d", "a", "t", "e", " ">>, success |-> FALSE, search |-> FALSE, error |-> TRUE],
     [text |-> <<"W", "e", "l", "c", "o", "m", "e", " ">>, success |-> FALSE, search |-> FALSE, error |-> FALSE]}

MaxSnippets == 2

\* pages: up to MaxSnippets snippets one after the other
PageParts == UNION {[1..k -> Snippets] : k \in 0..MaxSnippets}

RECURSIVE JoinParts(_, _)
JoinParts(parts, k) == IF k > Len(parts) THEN <<>> ELSE parts[k].text \o JoinParts(parts, k + 1)

PageArgs == {[parts |-> p, text |-> JoinParts(p, 1), raises |-> r] : p \in PageParts, r \in BOOLEAN}

\* Controls of a page in document order.  A control is a record
\* [tag, type, text, id, displayed, enabled]; id is <<>> or unique in the page.
submit_keywords == {<<"b", "o", "o", "k">>, <<"r", "e", "s", "e", "r", "v", "e">>, <<"s", "u", "b", "m", "i", "t">>, <<"s", "e", "a", "r", "c", "h">>, <<"f", "i", "n", "d">>}

\* WebElement.text: the visible text, empty for an element not displayed
VisibleText(c) == IF c.displayed THEN c.text ELSE <<>>

\* the first index of 1..n that satisfies Test, 0 when there is none
FirstIndex(n, Test(_)) ==
    IF \E k \in 1..n : Test(k)
    THEN CHOOSE k \in 1..n : Test(k) /\ \A j \in 1..(k - 1) : ~Test(j)
    ELSE 0

\* driver.find_element for the button entry of the page analysis made from
\* control k: by id when the control has one, else the first button whose
\* text contains the entry's text; 0 stands for NoSuchElementException
find_button_element(page, k) ==
    IF page[k].id # <<>> THEN k
    ELSE FirstIndex(Len(page), LAMBDA j :
             page[j].tag = "button" /\ Contains(page[j].text, VisibleText(page[k])))

\* the loop over page_analysis['buttons'] of _submit_momentus_form: the
\* first button with a keyword in its text whose element is displayed and
\* enabled
keyword_button(page) ==
    FirstIndex(Len(page), LAMBDA k :
        /\ page[k].tag = "button"
        /\ AnyIn(Lower(VisibleText(page[k])), submit_keywords)
        /\ Bind(find_button_element(page, k), LAMBDA e :
               e # 0 /\ page[e].displayed /\ page[e].enabled))

\* one generic selector: find_element returns the first match only, which
\* is taken when it is displayed and enabled
first_match(page, Matches(_)) ==
    Bind(FirstIndex(Len(page), Matches), LAMBDA e :
        IF e # 0 /\ page[e].displayed /\ page[e].enabled THEN e ELSE 0)

RECURSIVE first_nonzero(_, _)
first_nonzero(seq, k) ==
    IF k > Len(seq) THEN 0 ELSE IF seq[k] # 0 THEN seq[k] ELSE first_nonzero(seq, k + 1)

\* the fallback selectors of _submit_momentus_form, in order
submit_selectors(page) ==
    <<first_match(page, LAMBDA j : page[j].tag = "button" /\ page[j].type = "submit"),
      first_match(page, LAMBDA j : page[j].tag = "input" /\ page[j].type = "submit"),
      first_match(page, LAMBDA j : page[j].tag = "button" /\ Contains(Lower(page[j].text), <<"b", "o", "o", "k">>)),
      first_match(page, LAMBDA j : page[j].tag = "button" /\ Contains(Lower(page[j].text), <<"r", "e", "s", "e", "r", "v", "e">>)),
      first_match(page, LAMBDA j : page[j].tag = "button" /\ Contains(Lower(page[j].text), <<"s", "e", "a", "r", "c", "h">>))>>

\* MomentusAutomation._submit_momentus_form: the index of the control that
\* is clicked, 0 when none is found
submit_momentus_form(page) ==
    Bind(keyword_button(page), LAMBDA b :
        IF b # 0 THEN find_button_element(page, b)
        ELSE first_nonzero(submit_selectors(page), 1))

\* one selector of find_submit_button: the first displayed and enabled
\* element among all the matches
first_usable(page, Matches(_)) ==
    FirstIndex(Len(page), LAMBDA j : Matches(j) /\ page[j].displayed /\ page[j].enabled)

\* test_form_inspector.find_submit_button: the index of the element
\* returned, 0 for None
find_submit_button(page) ==
    first_nonzero(
      <<first_usable(page, LAMBDA j : page[j].tag = "button" /\ page[j].type = "submit"),
        first_usable(page, LAMBDA j : page[j].tag = "input" /\ page[j].type = "submit"),
        first_usable(page, LAMBDA j : page[j].tag = "button" /\ Contains(page[j].text, <<"S", "e", "a", "r", "c", "h">>)),
        first_usable(page, LAMBDA j : page[j].tag = "button" /\ Contains(page[j].text, <<"F", "i", "n", "d">>)),
        first_usable(page, LAMBDA j : page[j].tag = "button" /\ Contains(page[j].text, <<"S", "u", "b", "m", "i", "t">>))>>, 1)

Control(tag, type, text, id) ==
    [tag |-> tag, type |-> type, text |-> text, id |-> id, displayed |-> TRUE, enabled |-> TRUE]

ControlKinds ==
    {Control("button", "submit", <<"G", "o">>, <<"g", "o">>),
     Control("button", "submit", <<"S", "e", "a", "r", "c", "h">>, <<>>),
     Control("input", "submit", <<>>, <<>>),
     Control("button", "button", <<"S", "e", "a", "r", "c", "h", " ", "R", "o", "o", "m", "s">>, <<>>),
     Control("button", "button", <<"B", "o", "o", "k", " ", "R", "o", "o", "m">>, <<"b", "o", "o", "k">>),
     Control("button", "button", <<"C", "a", "n", "c", "e", "l">>, <<>>)}

\* every kind as it is, hidden, or disabled
Controls ==
    ControlKinds
    \cup {[c EXCEPT !.displayed = FALSE] : c \in ControlKinds}
    \cup {[c EXCEPT !.enabled = FALSE] : c \in ControlKinds}

MaxControls == 2

\* pages whose ids are unique
ControlPages ==
    UNION {{p \in [1..k -> Controls] :
              \A i, j \in 1..k : (i < j /\ p[i].id # <<>>) => p[i].id # p[j].id} :
           k \in 0..MaxControls}

(***************************************************************************)
(* AIDropdownMatcher (test_smart_booking.py)                               *)
(***************************************************************************)
WhiteSpace == {" ", "\n", "\t", "\r", "\f"}

\* str.strip(): the text without its leading and trailing white space
strip(s) ==
    Bind(FirstIndex(Len(s), LAMBDA i : s[i] \notin WhiteSpace), LAMBDA a :
        IF a = 0 THEN <<>>
        ELSE SubSeq(s, a, CHOOSE b \in a..Len(s) :
                              /\ s[b] \notin WhiteSpace
                              /\ \A j \in (b + 1)..Len(s) : s[j] \in WhiteSpace))

\* Python's None and a returned text
PyNone == [none |-> TRUE]

PyStr(s) == [none |-> FALSE, value |-> s]

\* Python truth value of an optional text: None and "" are false
Given(v) == ~v.none /\ v.value # <<>>

\* the option at index k of the list, None for index 0 (no option matched)
OptionAt(options, k) == IF k = 0 THEN PyNone ELSE PyStr(options[k])

\* match_dropdown_options with the partial match answering the model's own
\* text instead of the option it matched
match_dropdown_options_echo(options, reply) ==
    IF reply.raises THEN PyNone
    ELSE Bind(strip(reply.content), LAMBDA selected_option :
         IF \E k \in 1..Len(options) : options[k] = selected_option
         THEN PyStr(selected_option)
         ELSE IF selected_option = <<"N", "O", "N", "E">> THEN PyNone
         ELSE IF \E k \in 1..Len(options) :
                     \/ Contains(Lower(options[k]), Lower(selected_option))
                     \/ Contains(Lower(selected_option), Lower(options[k]))
              THEN PyStr(selected_option)
              ELSE PyNone)

\* match_dropdown_options: reply is the outcome of the chat completion, either
\* raising or a content text
match_dropdown_options(options, reply) ==
    IF reply.raises THEN PyNone
    ELSE Bind(strip(reply.content), LAMBDA selected_option :
         IF \E k \in 1..Len(options) : options[k] = selected_option
         THEN PyStr(selected_option)
         ELSE IF selected_option = <<"N", "O", "N", "E">> THEN PyNone
         ELSE OptionAt(options,
                  FirstIndex(Len(options), LAMBDA k :
                      \/ Contains(Lower(options[k]), Lower(selected_option))
                      \/ Contains(Lower(selected_option), Lower(options[k])))))

medium_sizes == {<<"8">>, <<"1", "0">>, <<"1", "2">>}

\* interpret_capacity_requirement
interpret_capacity_requirement(options, reply) ==
    IF reply.raises THEN PyNone
    ELSE Bind(strip(reply.content), LAMBDA selected_capacity :
         IF \E k \in 1..Len(options) : options[k] = selected_capacity
         THEN PyStr(selected_capacity)
         ELSE Bind(FirstIndex(Len(options), LAMBDA k :
                       Contains(Lower(options[k]), Lower(selected_capacity))),
              LAMBDA p :
                  IF p # 0 THEN PyStr(options[p])
                  ELSE Bind(FirstIndex(Len(options), LAMBDA k :
                                \E size \in medium_sizes : Contains(Lower(options[k]), size)),
                       LAMBDA m :
                           IF m # 0 THEN PyStr(options[m])
                           ELSE IF Len(options) > 0 THEN PyStr(options[1]) ELSE PyNone)))

\* dropdown option texts and the replies of the model
OptionTexts == {<<"C", "o", "n", "f", "e", "r", "e", "n", "c", "e", " ", "R", "o", "o", "m">>, <<"L", "a", "b">>, <<"S", "m", "a", "l", "l", " ", "(", "1", "-", "5", ")">>, <<"M", "e", "d", "i", "u", "m", " ", "(", "8", "-", "1", "0", ")">>}

MaxOptions == 2

OptionLists == UNION {[1..k -> OptionTexts] : k \in 0..MaxOptions}

ReplyTexts ==
    {<<"L", "a", "b">>, <<" ", "C", "o", "n", "f", "e", "r", "e", "n", "c", "e", " ", "R", "o", "o", "m", "\n">>, <<"N", "O", "N", "E">>, <<"c", "o", "n", "f", "e", "r", "e", "n", "c", "e">>, <<"T", "h", "e", " ", "L", "a", "b", ".">>,
     <<"A", "u", "d", "i", "t", "o", "r", "i", "u", "m">>, <<"1", "0">>, <<>>}

MatcherReplies ==
    {[raises |-> FALSE, content |-> c] : c \in ReplyTexts}
        \cup {[raises |-> TRUE, content |-> <<>>]}

MatcherArgs == {[options |-> o, reply |-> r] : o \in OptionLists, r \in MatcherReplies}

(***************************************************************************)
(* RoomBookingAgent (app/agent.py).  json.loads is computed character by   *)
(* character for the JSON the model's replies are made of: objects,        *)
(* arrays, texts without escapes, non-negative integers and null.  The     *)
(* scanner raises RecursionError when containers nest deeper than the      *)
(* interpreter's recursion limit, which is scaled down to RecursionLimit.  *)
(***************************************************************************)
RecursionLimit == 3

JsonSpace == {" ", "\t", "\n", "\r"}

\* the first position of s from i on that holds no JSON white space
RECURSIVE SkipSpace(_, _)
SkipSpace(s, i) ==
    IF i <= Len(s) /\ s[i] \in JsonSpace THEN SkipSpace(s, i + 1) ELSE i

JArray(items) == [t |-> "list", items |-> items]

JObject(items) == [t |-> "dict", items |-> items]

\* d[key] = value on the items of a dict: a key that is there keeps its place
dict_set(items, key, value) ==
    IF \E p \in 1..Len(items) : items[p].k = key
    THEN [p \in 1..Len(items) |->
             IF items[p].k = key THEN [k |-> key, v |-> value] ELSE items[p]]
    ELSE Append(items, [k |-> key, v |-> value])

Scanned(v, i) == [err |-> "none", val |-> v, pos |-> i]

JSONDecodeError == [err |-> "JSONDecodeError"]

RecursionError == [err |-> "RecursionError"]

\* the position of the quote that ends the text starting at i, 0 when the
\* text is not terminated or holds a control character
RECURSIVE StringEnd(_, _)
StringEnd(s, i) ==
    IF i > Len(s) THEN 0
    ELSE IF s[i] = "\"" THEN i
    ELSE IF s[i] \in {"\n", "\t", "\r", "\f"} THEN 0
    ELSE StringEnd(s, i + 1)

RECURSIVE scan_once(_, _, _)
RECURSIVE parse_members(_, _, _, _)
RECURSIVE parse_elements(_, _, _, _)

\* json.scanner: the value that starts at position i, inside depth containers
scan_once(s, i, depth) ==
    IF i > Len(s) THEN JSONDecodeError
    ELSE IF s[i] = "\""
         THEN Bind(StringEnd(s, i + 1), LAMBDA e :
                  IF e = 0 THEN JSONDecodeError
                  ELSE Scanned(JStr(SubSeq(s, i + 1, e - 1)), e + 1))
    ELSE IF s[i] = "{"
         THEN IF depth >= RecursionLimit THEN RecursionError
              ELSE Bind(SkipSpace(s, i + 1), LAMBDA j :
                       IF j <= Len(s) /\ s[j] = "}" THEN Scanned(JObject(<<>>), j + 1)
                       ELSE parse_members(s, j, depth + 1, <<>>))
    ELSE IF s[i] = "["
         THEN IF depth >= RecursionLimit THEN RecursionError
              ELSE Bind(SkipSpace(s, i + 1), LAMBDA j :
                       IF j <= Len(s) /\ s[j] = "]" THEN Scanned(JArray(<<>>), j + 1)
                       ELSE parse_elements(s, j, depth + 1, <<>>))
    ELSE IF s[i] = "0" THEN Scanned(JInt(0), i + 1)
    ELSE IF s[i] \in Digits
         THEN Bind(DigitRun(s, i), LAMBDA n : Scanned(JInt(NumVal(s, i, n)), i + n))
    ELSE IF StartsWithAt(s, i, StrNull) THEN Scanned(JNull, i + 4)
    ELSE JSONDecodeError

\* JSONObject: the members of an object from the key at position j on
parse_members(s, j, depth, acc) ==
    IF j > Len(s) \/ s[j] # "\"" THEN JSONDecodeError
    ELSE Bind(StringEnd(s, j + 1), LAMBDA e :
         IF e = 0 THEN JSONDecodeError
         ELSE Bind(SkipSpace(s, e + 1), LAMBDA c :
              IF c > Len(s) \/ s[c] # ":" THEN JSONDecodeError
              ELSE Bind(scan_once(s, SkipSpace(s, c + 1), depth), LAMBDA v :
                   IF v.err # "none" THEN v
                   ELSE Bind(SkipSpace(s, v.pos), LAMBDA m :
                        IF m <= Len(s) /\ s[m] = "}"
                        THEN Scanned(JObject(dict_set(acc, SubSeq(s, j + 1, e - 1), v.val)), m + 1)
                        ELSE IF m <= Len(s) /\ s[m] = ","
                        THEN parse_members(s, SkipSpace(s, m + 1), depth,
                                           dict_set(acc, SubSeq(s, j + 1, e - 1), v.val))
                        ELSE JSONDecodeError))))

\* JSONArray: the elements of an array from position j on
parse_elements(s, j, depth, acc) ==
    Bind(scan_once(s, j, depth), LAMBDA v :
        IF v.err # "none" THEN v
        ELSE Bind(SkipSpace(s, v.pos), LAMBDA m :
             IF m <= Len(s) /\ s[m] = "]" THEN Scanned(JArray(Append(acc, v.val)), m + 1)
             ELSE IF m <= Len(s) /\ s[m] = ","
             THEN parse_elements(s, SkipSpace(s, m + 1), depth, Append(acc, v.val))
             ELSE JSONDecodeError))

\* json.loads: one value, white space around it, and nothing after it
json_loads(s) ==
    Bind(scan_once(s, SkipSpace(s, 1), 0), LAMBDA r :
        IF r.err # "none" THEN r
        ELSE IF SkipSpace(s, r.pos) <= Len(s) THEN JSONDecodeError
        ELSE r)

\* what a call does: it returns a value or raises
Returned(v) == [raised |-> "none", value |-> v]

Raised(e) == [raised |-> e]

StrNextSteps == <<"P", "l", "e", "a", "s", "e", " ", "p", "r", "o", "v", "i", "d", "e", " ", "m", "o", "r", "e", " ", "s", "p", "e", "c", "i", "f", "i", "c", " ", "d", "e", "t", "a", "i", "l", "s", " ", "a", "b", "o", "u", "t", " ", "y", "o", "u", "r", " ", "b", "o", "o", "k", "i", "n", "g", " ", "n", "e", "e", "d", "s", ".">>

\* the fallback record of _parse_ai_response
Fallback(ai_response) ==
    JObject(<<[k |-> <<"e", "x", "t", "r", "a", "c", "t", "e", "d", "_", "d", "e", "t", "a", "i", "l", "s">>, v |-> JObject(<<>>)],
              [k |-> <<"m", "i", "s", "s", "i", "n", "g", "_", "i", "n", "f", "o">>, v |-> JArray(<<>>)],
              [k |-> <<"s", "u", "g", "g", "e", "s", "t", "i", "o", "n", "s">>, v |-> JStr(ai_response)],
              [k |-> <<"n", "e", "x", "t", "_", "s", "t", "e", "p", "s">>, v |-> JStr(StrNextSteps)]>>)

\* _parse_ai_response: ai_response is message.content, a text or None
parse_ai_response(ai_response) ==
    IF ai_response.none THEN Raised("AttributeError")
    ELSE IF StartsWithAt(strip(ai_response.value), 1, <<"{">>)
         THEN Bind(json_loads(ai_response.value), LAMBDA r :
                  IF r.err = "none" THEN Returned(r.val)
                  ELSE IF r.err = "JSONDecodeError" THEN Returned(Fallback(ai_response.value))
                  ELSE Raised(r.err))
         ELSE Returned(Fallback(ai_response.value))

StrError == <<"e", "r", "r", "o", "r">>

StrNote == <<"n", "o", "t", "e">>

\* the record process_request answers when no client is configured
NoteRecord(user_input) ==
    JObject(<<[k |-> <<"m", "e", "s", "s", "a", "g", "e">>, v |-> JStr(<<"R", "e", "c", "e", "i", "v", "e", "d", " ", "r", "e", "q", "u", "e", "s", "t", ":", " ">> \o user_input)],
              [k |-> <<"s", "t", "a", "t", "u", "s">>, v |-> JStr(<<"r", "e", "c", "e", "i", "v", "e", "d">>)],
              [k |-> StrNote,
               v |-> JStr(<<"A", "I", " ", "p", "r", "o", "c", "e", "s", "s", "i", "n", "g", " ", "d", "i", "s", "a", "b", "l", "e", "d", " ", "-", " ", "O", "p", "e", "n", "A", "I", " ", "A", "P", "I", " ", "k", "e", "y", " ", "n", "o", "t", " ", "c", "o", "n", "f", "i", "g", "u", "r", "e", "d">>)]>>)

\* the record process_request answers when exception e was raised
ErrorRecord(e) ==
    JObject(<<[k |-> StrError, v |-> JStr(<<"F", "a", "i", "l", "e", "d", " ", "t", "o", " ", "p", "r", "o", "c", "e", "s", "s", " ", "r", "e", "q", "u", "e", "s", "t", ":", " ">> \o e)]>>)

\* process_request without its try: what the call or the parsing raises
\* reaches the caller
process_request_notry(client, user_input, completion) ==
    IF ~client THEN [raised |-> "none", value |-> NoteRecord(user_input), calls |-> 0]
    ELSE IF completion.raises
         THEN [raised |-> "APIError", calls |-> 1]
         ELSE Bind(parse_ai_response(completion.content), LAMBDA parsed_request :
                  IF parsed_request.raised # "none"
                  THEN [raised |-> parsed_request.raised, calls |-> 1]
                  ELSE [raised |-> "none", value |-> parsed_request.value, calls |-> 1])

\* process_request: client tells whether self.openai_client is set,
\* completion is what chat.completions.create does; calls counts the calls
\* of the model
process_request(client, user_input, completion) ==
    IF ~client THEN [raised |-> "none", value |-> NoteRecord(user_input), calls |-> 0]
    ELSE IF completion.raises
         THEN [raised |-> "none", value |-> ErrorRecord(<<"A", "P", "I", "E", "r", "r", "o", "r">>), calls |-> 1]
         ELSE Bind(parse_ai_response(completion.content), LAMBDA parsed_request :
                  IF parsed_request.raised # "none"
                  THEN [raised |-> "none", value |-> ErrorRecord(<<"e", "x", "c", "e", "p", "t", "i", "o", "n">>), calls |-> 1]
                  ELSE [raised |-> "none", value |-> parsed_request.value, calls |-> 1])

\* replies of the model: every text of up to MaxReplyTokens tokens, and the
\* texts that open 1..RecursionLimit+1 containers inside an object
ReplyTokens ==
    {<<"{">>, <<"}">>, <<"[">>, <<"]">>, <<":">>, <<",">>, <<" ">>, <<"\f">>,
     <<"\"", "a", "\"">>, <<"1">>, StrNull, <<"o", "k">>}

MaxReplyTokens == 3

RECURSIVE Concat(_, _)
Concat(parts, k) == IF k > Len(parts) THEN <<>> ELSE parts[k] \o Concat(parts, k + 1)

RECURSIVE Repeat(_, _)
Repeat(x, n) == IF n = 0 THEN <<>> ELSE x \o Repeat(x, n - 1)

NestedReplies ==
    UNION {{<<"{", "\"", "a", "\"", ":">> \o Repeat(<<"[">>, n),
            <<"{", "\"", "a", "\"", ":">> \o Repeat(<<"[">>, n) \o <<"1">> \o Repeat(<<"]">>, n) \o <<"}">>,
            <<"{", "\"", "a", "\"", ":">> \o Repeat(<<"{", "\"", "a", "\"", ":">>, n) \o <<"1">> \o Repeat(<<"}">>, n) \o <<"}">>} :
           n \in 1..(RecursionLimit + 1)}

ReplyContents ==
    {Concat(p, 1) : p \in UNION {[1..k -> ReplyTokens] : k \in 0..MaxReplyTokens}}
        \cup NestedReplies
        \cup {<<"{", "\"", "a", "\"", ":", " ", "1", ",", " ", "\"", "a", "\"", ":", " ", "\"", "x", "\"", ",", " ", "\"", "b", "\"", ":", " ", "n", "u", "l", "l", "}">>, <<"S", "u", "r", "e", ",", " ", "I", " ", "c", "a", "n", " ", "b", "o", "o", "k", " ", "t", "h", "a", "t", " ", "r", "o", "o", "m", ".">>}

ParseArgs == {PyStr(c) : c \in ReplyContents} \cup {PyNone}

Completions ==
    {[raises |-> FALSE, content |-> c] : c \in ParseArgs}
        \cup {[raises |-> TRUE, content |-> PyNone]}

ProcessArgs ==
    {[client |-> c, user_input |-> <<"b", "o", "o", "k", " ", "a", " ", "r", "o", "o", "m">>, completion |-> m] :
        c \in BOOLEAN, m \in Completions}

(***************************************************************************)
(* Page inspection: FormInspector.inspect_form (test_form_inspector.py)    *)
(* and MomentusAutomation.analyze_momentus_page                            *)
(* (app/browser_automation.py).  A page is the sequence of its elements in *)
(* document order; an inventory lists the positions of the elements it     *)
(* holds.                                                                  *)
(***************************************************************************)
\* the positions of the elements of page with the tag, from position k on
RECURSIVE Positions(_, _, _)
Positions(page, tag, k) ==
    IF k > Len(page) THEN <<>>
    ELSE IF page[k].tag = tag THEN <<k>> \o Positions(page, tag, k + 1)
    ELSE Positions(page, tag, k + 1)

\* the elements of a list of positions that are displayed
RECURSIVE Displayed(_, _, _)
Displayed(page, ps, k) ==
    IF k > Len(ps) THEN <<>>
    ELSE IF page[ps[k]].displayed THEN <<ps[k]>> \o Displayed(page, ps, k + 1)
    ELSE Displayed(page, ps, k + 1)

\* seq[:n]
Take(seq, n) == SubSeq(seq, 1, IF Len(seq) < n THEN Len(seq) ELSE n)

\* inspect_form: _inspect_inputs, _inspect_selects and _inspect_textareas
\* append the displayed elements to form_fields; _inspect_buttons appends
\* nothing
inspect_form(page) ==
    [inputs |-> Displayed(page, Positions(page, "input", 1), 1),
     selects |-> Displayed(page, Positions(page, "select", 1), 1),
     textareas |-> Displayed(page, Positions(page, "textarea", 1), 1),
     buttons |-> <<>>]

InputLimit == 20

ButtonLimit == 15

\* analyze_momentus_page: the first 20 inputs, the selects, the first 15
\* buttons; textareas are not looked at
analyze_momentus_page(page) ==
    [inputs |-> Take(Positions(page, "input", 1), InputLimit),
     selects |-> Positions(page, "select", 1),
     textareas |-> <<>>,
     buttons |-> Take(Positions(page, "button", 1), ButtonLimit)]

Element(tag, type, displayed) == [tag |-> tag, type |-> type, displayed |-> displayed]

\* <input type=hidden> is never displayed
Elements ==
    {Element("input", "hidden", FALSE)}
        \cup {Element("input", "text", d) : d \in BOOLEAN}
        \cup {Element("select", "select-one", d) : d \in BOOLEAN}
        \cup {Element("textarea", "textarea", d) : d \in BOOLEAN}
        \cup {Element("button", "submit", d) : d \in BOOLEAN}

MaxElements == 3

ElementPages == UNION {[1..k -> Elements] : k \in 0..MaxElements}

(***************************************************************************)
(* Capacity dropdowns: fill_capacity_select (test_complete_booking.py) and *)
(* the capacity branch of fill_form_with_mappings (test_form_inspector.py) *)
(***************************************************************************)
\* an <option>: its visible text and its value attribute
Option(text, value) == [text |-> text, value |-> value]

\* nothing was selected
NotSelected == [ok |-> FALSE, selected |-> 0]

\* Select.select_by_visible_text(text) followed by the report of success:
\* the first option with that visible text becomes the selected one
select_by_visible_text(options, text) ==
    [ok |-> TRUE, selected |-> FirstIndex(Len(options), LAMBDA k : options[k].text = text)]

\* int(re.search(r'\d+', text).group()), -1 when the text has no digit (the
\* AttributeError is swallowed and the option skipped)
option_cap(text) ==
    Bind(FirstIndex(Len(text), LAMBDA i : text[i] \in Digits), LAMBDA i :
        IF i = 0 THEN -1 ELSE NumVal(text, i, DigitRun(text, i)))

\* the first loop: the first option whose text contains the capacity or
\* whose value equals it
exact_match(options, capacity) ==
    FirstIndex(Len(options), LAMBDA k :
        \/ Contains(options[k].text, Dec(capacity))
        \/ options[k].value = Dec(capacity))

\* the second loop: the first option whose range holds the capacity
range_match(options, capacity) ==
    FirstIndex(Len(options), LAMBDA k : range_covers(options[k].text, capacity))

\* the third loop: the first option among those whose number exceeds the
\* capacity by the least
closest_higher(options, capacity) ==
    FirstIndex(Len(options), LAMBDA k :
        /\ option_cap(options[k].text) >= capacity
        /\ \A j \in 1..Len(options) :
              option_cap(options[j].text) >= capacity
                  => option_cap(options[k].text) <= option_cap(options[j].text))

\* fill_capacity_select of test_complete_booking.py
fill_capacity_select(options, capacity) ==
    Bind(exact_match(options, capacity), LAMBDA e :
    Bind(range_match(options, capacity), LAMBDA r :
    Bind(closest_higher(options, capacity), LAMBDA c :
        IF e # 0 THEN select_by_visible_text(options, options[e].text)
        ELSE IF r # 0 THEN select_by_visible_text(options, options[r].text)
        ELSE IF c # 0 THEN select_by_visible_text(options, options[c].text)
        ELSE NotSelected)))

\* the capacity branch of fill_form_with_mappings for a select: the first
\* option that contains the capacity or is a range around it
fill_capacity_inspector(options, capacity) ==
    Bind(FirstIndex(Len(options), LAMBDA k :
            \/ Contains(options[k].text, Dec(capacity))
            \/ range_covers(options[k].text, capacity)), LAMBDA b :
        IF capacity = 0 \/ b = 0 THEN NotSelected
        ELSE select_by_visible_text(options, options[b].text))

CapacityOptions ==
    {Option(<<"1", "0">>, <<"a">>), Option(<<"1", "0", "0", " ", "p", "e", "o", "p", "l", "e">>, <<"1", "0", "0">>), Option(<<"T", "e", "n">>, <<"1", "0">>),
     Option(<<"5", " ", "-", " ", "1", "5">>, <<"s">>), Option(<<"1", "2", " ", "s", "e", "a", "t", "s">>, <<"1", "2">>), Option(<<"A", "n", "y">>, <<>>),
     Option(<<"u", "p", " ", "t", "o", " ", "3", "0">>, <<"3", "0">>)}

MaxCapacityOptions == 2

Capacities == {0, 8, 10, 12, 40}

CapacityArgs ==
    [options : UNION {[1..k -> CapacityOptions] : k \in 0..MaxCapacityOptions},
     capacity : Capacities]

(***************************************************************************)
(* ValidationHelper.validate_booking_request (app/utils.py)                *)
(***************************************************************************)
\* the loop over the required fields, lines 63-66: a field that is absent
\* or false (None, '', 0) is reported missing
missing_fields(request_data) ==
    SelectSeq(<<"date", "start_time", "end_time">>, LAMBDA field :
        request_data[field] = JAbsent \/ ~Truthy(request_data[field]))

\* datetime.strptime(value, fmt) of a field that is in the mapping:
\* "TypeError" for a value that is not a text, "ValueError" for a text
\* that does not match, "none" otherwise and for a field that is absent
parse_field(value, fmt) ==
    IF value = JAbsent THEN "none"
    ELSE IF value.t # "str" THEN "TypeError"
    ELSE IF strptime(value.s, fmt).ok THEN "none" ELSE "ValueError"

\* lines 75-81: the end time is only looked at when the start time parsed
parse_times(request_data) ==
    IF parse_field(request_data.start_time, FmtHM) # "none"
    THEN parse_field(request_data.start_time, FmtHM)
    ELSE parse_field(request_data.end_time, FmtHM)

\* validate_booking_request: only ValueError is caught
validate_booking_request(request_data) ==
    Bind([k \in 1..Len(missing_fields(request_data)) |->
             "Missing required field: " \o missing_fields(request_data)[k]], LAMBDA missing :
    Bind(parse_field(request_data.date, FmtYmd), LAMBDA d :
    Bind(parse_times(request_data), LAMBDA t :
        IF d = "TypeError" \/ t = "TypeError" THEN Raised("TypeError")
        ELSE Bind(missing
                    \o (IF d = "ValueError" THEN <<"Invalid date format. Use YYYY-MM-DD">> ELSE <<>>)
                    \o (IF t = "ValueError" THEN <<"Invalid time format. Use HH:MM">> ELSE <<>>),
                  LAMBDA errors :
                     Returned([valid |-> Len(errors) = 0, errors |-> errors])))))

DateValues ==
    {JAbsent, JNull, JStr(<<>>), JStr(<<"2", "0", "2", "7", "-", "0", "8", "-", "1", "6">>), JStr(<<"2", "0", "2", "7", "-", "8", "-", "7">>), JStr(<<"1", "6", "/", "0", "8", "/", "2", "0", "2", "7">>)}

TimeValues ==
    {JAbsent, JNull, JInt(1000), JStr(<<>>), JStr(<<"1", "0", ":", "0", "0">>), JStr(<<"9", ":", "5">>), JStr(<<"2", "5", ":", "0", "0">>)}

BookingRequests == [date : DateValues, start_time : TimeValues, end_time : TimeValues]

(***************************************************************************)
(* Calls of the application's operations                                   *)
(***************************************************************************)
AppOps ==
    {"handle_momentus_response", "submit_momentus_form", "find_submit_button",
     "match_dropdown_options", "interpret_capacity_requirement",
     "_parse_ai_response", "process_request", "inspect_form", "analyze_momentus_page",
     "fill_capacity_select", "fill_capacity_inspector", "validate_booking_request"}

AppArgsOf(o) ==
    CASE o = "handle_momentus_response" -> PageArgs
      [] o = "submit_momentus_form" -> ControlPages
      [] o = "find_submit_button" -> ControlPages
      [] o = "match_dropdown_options" -> MatcherArgs
      [] o = "interpret_capacity_requirement" -> MatcherArgs
      [] o = "_parse_ai_response" -> ParseArgs
      [] o = "process_request" -> ProcessArgs
      [] o = "inspect_form" -> ElementPages
      [] o = "analyze_momentus_page" -> ElementPages
      [] o = "fill_capacity_select" -> CapacityArgs
      [] o = "fill_capacity_inspector" -> CapacityArgs
      [] o = "validate_booking_request" -> BookingRequests

InitApp ==
    /\ op \in AppOps
    /\ variant = "app"
    /\ arg \in AppArgsOf(op)
    /\ now = Now0
    /\ libcPadsYear = FALSE
    /\ ret = <<>>
    /\ first = <<>>
    /\ pc = "call"
    /\ environ = <<>>
    /\ session = <<>>
    /\ history = <<>>
    /\ disk = <<>>
    /\ procs = <<>>
    /\ clock = 0
    /\ driver = "none"

HandleMomentusResponse ==
    /\ pc = "call"
    /\ op = "handle_momentus_response"
    /\ ret' = handle_momentus_response(arg)
    /\ pc' = "ret"
    /\ UNCHANGED <<now, libcPadsYear, op, variant, arg, first, environ, session, history, disk, procs, clock, driver>>

SubmitMomentusForm ==
    /\ pc = "call"
    /\ op = "submit_momentus_form"
    /\ ret' = submit_momentus_form(arg)
    /\ pc' = "ret"
    /\ UNCHANGED <<now, libcPadsYear, op, variant, arg, first, environ, session, history, disk, procs, clock, driver>>

FindSubmitButton ==
    /\ pc = "call"
    /\ op = "find_submit_button"
    /\ ret' = find_submit_button(arg)
    /\ pc' = "ret"
    /\ UNCHANGED <<now, libcPadsYear, op, variant, arg, first, environ, session, history, disk, procs, clock, driver>>

MatchDropdownOptions ==
    /\ pc = "call"
    /\ op = "match_dropdown_options"
    /\ ret' = match_dropdown_options(arg.options, arg.reply)
    /\ pc' = "ret"
    /\ UNCHANGED <<now, libcPadsYear, op, variant, arg, first, environ, session, history, disk, procs, clock, driver>>

InterpretCapacityRequirement ==
    /\ pc = "call"
    /\ op = "interpret_capacity_requirement"
    /\ ret' = interpret_capacity_requirement(arg.options, arg.reply)
    /\ pc' = "ret"
    /\ UNCHANGED <<now, libcPadsYear, op, variant, arg, first, environ, session, history, disk, procs, clock, driver>>

ParseAiResponse ==
    /\ pc = "call"
    /\ op = "_parse_ai_response"
    /\ ret' = parse_ai_response(arg)
    /\ pc' = "ret"
    /\ UNCHANGED <<now, libcPadsYear, op, variant, arg, first, environ, session, history, disk, procs, clock, driver>>

ProcessRequest ==
    /\ pc = "call"
    /\ op = "process_request"
    /\ ret' = process_request(arg.client, arg.user_input, arg.completion)
    /\ pc' = "ret"
    /\ UNCHANGED <<now, libcPadsYear, op, variant, arg, first, environ, session, history, disk, procs, clock, driver>>

InspectForm ==
    /\ pc = "call"
    /\ op = "inspect_form"
    /\ ret' = inspect_form(arg)
    /\ pc' = "ret"
    /\ UNCHANGED <<now, libcPadsYear, op, variant, arg, first, environ, session, history, disk, procs, clock, driver>>

AnalyzeMomentusPage ==
    /\ pc = "call"
    /\ op = "analyze_momentus_page"
    /\ ret' = analyze_momentus_page(arg)
    /\ pc' = "ret"
    /\ UNCHANGED <<now, libcPadsYear, op, variant, arg, first, environ, session, history, disk, procs, clock, driver>>

FillCapacitySelect ==
    /\ pc = "call"
    /\ op = "fill_capacity_select"
    /\ ret' = fill_capacity_select(arg.options, arg.capacity)
    /\ pc' = "ret"
    /\ UNCHANGED <<now, libcPadsYear, op, variant, arg, first, environ, session, history, disk, procs, clock, driver>>

FillCapacityInspector ==
    /\ pc = "call"
    /\ op = "fill_capacity_inspector"
    /\ ret' = fill_capacity_inspector(arg.options, arg.capacity)
    /\ pc' = "ret"
    /\ UNCHANGED <<now, libcPadsYear, op, variant, arg, first, environ, session, history, disk, procs, clock, driver>>

ValidateBookingRequest ==
    /\ pc = "call"
    /\ op = "validate_booking_request"
    /\ ret' = validate_booking_request(arg)
    /\ pc' = "ret"
    /\ UNCHANGED <<now, libcPadsYear, op, variant, arg, first, environ, session, history, disk, procs, clock, driver>>

NextApp ==
    \/ HandleMomentusResponse
    \/ SubmitMomentusForm
    \/ FindSubmitButton
    \/ MatchDropdownOptions
    \/ InterpretCapacityRequirement
    \/ ParseAiResponse
    \/ ProcessRequest
    \/ InspectForm
    \/ AnalyzeMomentusPage
    \/ FillCapacitySelect
    \/ FillCapacityInspector
    \/ ValidateBookingRequest

SpecApp == InitApp /\ [][NextApp]_vars

(***************************************************************************)
(* The booking workflows: search_rooms (app/browser_automation.py),        *)
(* smart_room_booking_workflow (test_smart_booking.py) and                 *)
(* intelligent_form_booking_workflow (test_form_inspector.py), one action  *)
(* per step.  ret records what has happened so far: the number of fields   *)
(* the form-fill step filled (-1 before it ran), whether a submit control  *)
(* was clicked, and the classification of the result page.                 *)
(***************************************************************************)
smart_submit_keywords == {<<"s", "e", "a", "r", "c", "h">>, <<"f", "i", "n", "d">>, <<"s", "u", "b", "m", "i", "t">>, <<"g", "o">>}

\* the WebElement of control k of the page
WebElement(k) == [kind |-> "WebElement", control |-> k]

\* the positions 1..n in order
Indices(n) == [i \in 1..n |-> i]

\* driver.find_elements for one selector: the displayed matches in document
\* order, as detect_momentus_form_with_ai appends them
displayed_matches(page, Matches(_)) ==
    Bind(SelectSeq(Indices(Len(page)), LAMBDA j : Matches(j) /\ page[j].displayed),
         LAMBDA found : [i \in 1..Len(found) |-> WebElement(found[i])])

SmartButtonLimit == 5

\* detect_momentus_form_with_ai, lines 1198-1235: form_elements['buttons'].
\* Every selector appends its displayed matches, so a control can be recorded
\* more than once; only when nothing was recorded are the first buttons of
\* the page looked at.  The controls carry no class, and the value of an
\* <input> is its text.
detect_buttons(page) ==
    Bind(displayed_matches(page, LAMBDA j : page[j].tag = "button" /\ page[j].type = "submit")
            \o displayed_matches(page, LAMBDA j : page[j].tag = "input" /\ page[j].type = "submit")
            \o displayed_matches(page, LAMBDA j : page[j].tag = "button" /\ Contains(page[j].text, <<"S", "e", "a", "r", "c", "h">>))
            \o displayed_matches(page, LAMBDA j : page[j].tag = "button" /\ Contains(page[j].text, <<"F", "i", "n", "d">>))
            \o displayed_matches(page, LAMBDA j : page[j].tag = "button" /\ Contains(page[j].text, <<"S", "u", "b", "m", "i", "t">>))
            \o displayed_matches(page, LAMBDA j : page[j].tag = "input" /\ page[j].text = <<"S", "e", "a", "r", "c", "h">>)
            \o displayed_matches(page, LAMBDA j : page[j].tag = "input" /\ page[j].text = <<"F", "i", "n", "d">>),
         LAMBDA buttons :
            IF Len(buttons) > 0 THEN buttons
            ELSE Bind(Take(SelectSeq(Indices(Len(page)), LAMBDA j : page[j].tag = "button"),
                           SmartButtonLimit),
                      LAMBDA all_buttons :
                         displayed_matches(page, LAMBDA j :
                             /\ \E i \in 1..Len(all_buttons) : all_buttons[i] = j
                             /\ AnyIn(Lower(page[j].text), smart_submit_keywords))))

\* submit_momentus_form_smart: the index in form_elements['buttons'] of the
\* button that is clicked: the first with a keyword, else the first button,
\* 0 when there is no button.  The loop reads button['text'], so a recorded
\* button that is a WebElement and not a dict raises TypeError, which the
\* function's except turns into False before anything is clicked.
submit_momentus_form_smart(buttons) ==
    Bind(FirstIndex(Len(buttons), LAMBDA k :
             \/ buttons[k].kind # "dict"
             \/ AnyIn(Lower(buttons[k].text), smart_submit_keywords)),
         LAMBDA b : IF b # 0 THEN (IF buttons[b].kind # "dict" THEN 0 ELSE b)
                    ELSE IF Len(buttons) > 0 THEN 1 ELSE 0)

MaxFilled == 2

FlowPages == {p \in ControlPages : Len(p) <= 1}

ResultPages == {a \in PageArgs : Len(a.parts) = 1}

Flows == {"search_rooms", "smart_room_booking_workflow", "intelligent_form_booking_workflow"}

\* the environment of one run: whether the browser is already in Momentus,
\* whether navigating there works, whether the form was detected, how many
\* fields the fill step manages to fill, the controls of the form page, the
\* user's answer to "Submit the form?", and the page shown after a submit
FlowArgs ==
    [in_momentus : BOOLEAN, navigates : BOOLEAN, detected : BOOLEAN,
     fields : 0..MaxFilled, page : FlowPages, confirm : BOOLEAN,
     result : ResultPages]

Progress0 == [filled |-> -1, submitted |-> FALSE, classified |-> "none"]

InitFlow ==
    /\ op \in Flows
    /\ variant = "app"
    /\ arg \in FlowArgs
    /\ now = Now0
    /\ libcPadsYear = FALSE
    /\ ret = Progress0
    /\ first = <<>>
    /\ pc = "call"
    /\ environ = <<>>
    /\ session = <<>>
    /\ history = <<>>
    /\ disk = <<>>
    /\ procs = <<>>
    /\ clock = 0
    /\ driver = "none"

\* search_rooms, lines 565-573: navigate when not in Momentus, analyse the page
SearchRoomsNavigate ==
    /\ pc = "call"
    /\ op = "search_rooms"
    /\ pc' = IF ~arg.in_momentus /\ ~arg.navigates THEN "ret" ELSE "fill"
    /\ UNCHANGED <<now, libcPadsYear, op, variant, arg, ret, first, environ, session, history, disk, procs, clock, driver>>

\* search_rooms, lines 576-578: a fill that filled nothing is only logged
SearchRoomsFill ==
    /\ pc = "fill"
    /\ op = "search_rooms"
    /\ ret' = [ret EXCEPT !.filled = arg.fields]
    /\ pc' = "submit"
    /\ UNCHANGED <<now, libcPadsYear, op, variant, arg, first, environ, session, history, disk, procs, clock, driver>>

\* search_rooms, lines 581-582 and 599-601
SearchRoomsSubmit ==
    /\ pc = "submit"
    /\ op = "search_rooms"
    /\ ret' = [ret EXCEPT !.submitted = (submit_momentus_form(arg.page) # 0)]
    /\ pc' = IF submit_momentus_form(arg.page) # 0 THEN "classify" ELSE "ret"
    /\ UNCHANGED <<now, libcPadsYear, op, variant, arg, first, environ, session, history, disk, procs, clock, driver>>

\* search_rooms, lines 584-598
SearchRoomsClassify ==
    /\ pc = "classify"
    /\ op = "search_rooms"
    /\ ret' = [ret EXCEPT !.classified = handle_momentus_response(arg.result)]
    /\ pc' = "ret"
    /\ UNCHANGED <<now, libcPadsYear, op, variant, arg, first, environ, session, history, disk, procs, clock, driver>>

\* smart_room_booking_workflow, lines 256-264: the form is detected, at the
\* latest after the user navigated to it by hand
SmartDetect ==
    /\ pc = "call"
    /\ op = "smart_room_booking_workflow"
    /\ pc' = IF arg.detected THEN "fill" ELSE "ret"
    /\ UNCHANGED <<now, libcPadsYear, op, variant, arg, ret, first, environ, session, history, disk, procs, clock, driver>>

\* smart_room_booking_workflow, lines 269-271 and 291-292
SmartFill ==
    /\ pc = "fill"
    /\ op = "smart_room_booking_workflow"
    /\ ret' = [ret EXCEPT !.filled = arg.fields]
    /\ pc' = IF arg.fields > 0 THEN "submit" ELSE "ret"
    /\ UNCHANGED <<now, libcPadsYear, op, variant, arg, first, environ, session, history, disk, procs, clock, driver>>

\* smart_room_booking_workflow, lines 276-278 and 289-290: the buttons handed
\* to submit_momentus_form_smart are the ones the detection recorded.  They
\* are WebElements, the submit answers False for every page, and the
\* analysis of the results at lines 281-287 is never reached.
SmartSubmit ==
    /\ pc = "submit"
    /\ op = "smart_room_booking_workflow"
    /\ ret' = [ret EXCEPT !.submitted = (submit_momentus_form_smart(detect_buttons(arg.page)) # 0)]
    /\ pc' = IF submit_momentus_form_smart(detect_buttons(arg.page)) # 0 THEN "classify" ELSE "ret"
    /\ UNCHANGED <<now, libcPadsYear, op, variant, arg, first, environ, session, history, disk, procs, clock, driver>>

\* intelligent_form_booking_workflow, lines 579-585
InspectorFill ==
    /\ pc = "call"
    /\ op = "intelligent_form_booking_workflow"
    /\ ret' = [ret EXCEPT !.filled = arg.fields]
    /\ pc' = IF arg.fields > 0 THEN "submit" ELSE "ret"
    /\ UNCHANGED <<now, libcPadsYear, op, variant, arg, first, environ, session, history, disk, procs, clock, driver>>

\* intelligent_form_booking_workflow, lines 590-598
InspectorSubmit ==
    /\ pc = "submit"
    /\ op = "intelligent_form_booking_workflow"
    /\ ret' = [ret EXCEPT !.submitted = (find_submit_button(arg.page) # 0 /\ arg.confirm)]
    /\ pc' = IF find_submit_button(arg.page) # 0 /\ arg.confirm THEN "classify" ELSE "ret"
    /\ UNCHANGED <<now, libcPadsYear, op, variant, arg, first, environ, session, history, disk, procs, clock, driver>>

\* intelligent_form_booking_workflow, lines 601-603
InspectorClassify ==
    /\ pc = "classify"
    /\ op = "intelligent_form_booking_workflow"
    /\ ret' = [ret EXCEPT !.classified = "analyzed"]
    /\ pc' = "ret"
    /\ UNCHANGED <<now, libcPadsYear, op, variant, arg, first, environ, session, history, disk, procs, clock, driver>>

NextFlow ==
    \/ SearchRoomsNavigate
    \/ SearchRoomsFill
    \/ SearchRoomsSubmit
    \/ SearchRoomsClassify
    \/ SmartDetect
    \/ SmartFill
    \/ SmartSubmit
    \/ InspectorFill
    \/ InspectorSubmit
    \/ InspectorClassify

SpecFlow == InitFlow /\ [][NextFlow]_vars

(***************************************************************************)
(* The form pass of the smart workflow (test_smart_booking.py):            *)
(* detect_momentus_form_with_ai, the steps of fill_momentus_form_with_ai   *)
(* and submit_momentus_form_smart, one action per step.  An element is its *)
(* position among the page's <select>s; ret holds form_elements, the       *)
(* option each dropdown shows (0: the one it came with), the selections    *)
(* made so far and success_count.                                          *)
(***************************************************************************)
\* a displayed, enabled <select> with a name and no id or class
Dropdown(name, texts) == [name |-> name, options |-> [k \in 1..Len(texts) |-> Option(texts[k], <<>>)]]

\* [opt.text.strip() for opt in raw_options if opt.text.strip()]
option_texts(dropdown) ==
    Bind(SelectSeq(dropdown.options, LAMBDA o : strip(o.text) # <<>>), LAMBDA os :
        [k \in 1..Len(os) |-> strip(os[k].text)])

\* re.search(r'\d{1,2}:\d{2}', option) or re.search(r'\d{1,2}\s*(am|pm)', option.lower())
looks_like_time(option) ==
    \E i \in 1..Len(option) :
        /\ option[i] \in Digits
        /\ \/ StartsWithAt(option, i + 1, <<":">>) /\ DigitRun(option, i + 2) >= 2
           \/ StartsWithAt(Lower(option), i + 1 + SpaceRun(option, i + 1), <<"a", "m">>)
           \/ StartsWithAt(Lower(option), i + 1 + SpaceRun(option, i + 1), <<"p", "m">>)

\* categorize_dropdown_by_content
categorize_dropdown_by_content(field_context, options) ==
    Bind(Lower(JoinBlank(options)), LAMBDA options_text :
        IF \E k \in 1..Len(options) : looks_like_time(options[k])
        THEN (IF AnyIn(field_context, {<<"s", "t", "a", "r", "t">>, <<"f", "r", "o", "m">>, <<"b", "e", "g", "i", "n">>}) THEN "start_time"
              ELSE IF AnyIn(field_context, {<<"e", "n", "d">>, <<"t", "o">>, <<"u", "n", "t", "i", "l">>, <<"f", "i", "n", "i", "s", "h">>}) THEN "end_time"
              ELSE "time_generic")
        ELSE IF AnyIn(options_text, {<<"c", "o", "n", "f", "e", "r", "e", "n", "c", "e">>, <<"c", "l", "a", "s", "s", "r", "o", "o", "m">>, <<"m", "e", "e", "t", "i", "n", "g">>, <<"s", "t", "u", "d", "y">>, <<"l", "a", "b">>, <<"a", "u", "d", "i", "t", "o", "r", "i", "u", "m">>})
             THEN "space_type"
        ELSE IF AnyIn(options_text, {<<"h", "a", "l", "l">>, <<"b", "u", "i", "l", "d", "i", "n", "g">>, <<"c", "e", "n", "t", "e", "r">>, <<"r", "o", "o", "m">>, <<"f", "l", "o", "o", "r">>})
             THEN "venue"
        ELSE IF AnyIn(options_text, {<<"p", "r", "o", "j", "e", "c", "t", "o", "r">>, <<"w", "h", "i", "t", "e", "b", "o", "a", "r", "d">>, <<"s", "c", "r", "e", "e", "n">>, <<"c", "o", "m", "p", "u", "t", "e", "r">>, <<"m", "i", "c", "r", "o", "p", "h", "o", "n", "e">>, <<"a", "u", "d", "i", "o">>})
             THEN "features"
        ELSE IF \E k \in 1..Len(options) : \E i \in 1..Len(options[k]) :
                   /\ options[k][i] \in Digits
                   /\ Contains(SubSeq(Lower(options[k]), i + 1, Len(options[k])), <<"p", "e", "o", "p", "l", "e">>)
             THEN "capacity"
        ELSE "unknown")

\* f"{select_name} {select_id} {select_class}".lower() of a dropdown
field_context_of(dropdown) == Lower(dropdown.name \o <<" ", " ">>)

category_of(dropdown) ==
    categorize_dropdown_by_content(field_context_of(dropdown), option_texts(dropdown))

\* len(options) > 1 and not all(opt.lower() in ['', 'select', 'choose', 'none'] ...)
meaningful(options) ==
    /\ Len(options) > 1
    /\ \E k \in 1..Len(options) :
          Lower(options[k]) \notin {<<>>, <<"s", "e", "l", "e", "c", "t">>, <<"c", "h", "o", "o", "s", "e">>, <<"n", "o", "n", "e">>}

\* the name selectors for time fields that apply to a <select>, in the order
\* of all_time_selectors
time_selector_words == <<<<"t", "i", "m", "e">>, <<"h", "o", "u", "r">>, <<"m", "i", "n", "u", "t", "e">>, <<"s", "t", "a", "r", "t">>, <<"e", "n", "d">>>>

\* lines 955-990: the selects found by the selectors, each once, in the order
\* of the selectors; when there is none, every select with time-like options
RECURSIVE time_fields_by(_, _, _)
time_fields_by(selects, j, fields) ==
    IF j > Len(time_selector_words) THEN fields
    ELSE time_fields_by(selects, j + 1,
            fields \o SelectSeq(Indices(Len(selects)), LAMBDA d :
                         /\ Contains(selects[d].name, time_selector_words[j])
                         /\ \A i \in 1..Len(fields) : fields[i] # d))

detect_time_fields(selects) ==
    Bind(time_fields_by(selects, 1, <<>>), LAMBDA found :
        IF Len(found) > 0 THEN found
        ELSE SelectSeq(Indices(Len(selects)), LAMBDA d :
                \E k \in 1..Len(option_texts(selects[d])) :
                    looks_like_time(option_texts(selects[d])[k])))

\* the answer of analyze_dropdown_with_ai for a dropdown: None, or the text
\* of the option the matcher settled on
ai_selection_of(dropdown, choice) ==
    IF choice = 0 THEN PyNone ELSE PyStr(option_texts(dropdown)[choice])

\* lines 1096-1185: the loop over the page's selects.  A dropdown
\* categorised start_time or end_time is recorded as such and, not being a
\* generic time dropdown, is analysed and appended to ai_dropdowns as well.
RECURSIVE detect_selects(_, _, _, _)
detect_selects(selects, ai, d, form_elements) ==
    IF d > Len(selects) THEN form_elements
    ELSE IF ~meaningful(option_texts(selects[d]))
         THEN detect_selects(selects, ai, d + 1, form_elements)
    ELSE Bind(category_of(selects[d]), LAMBDA category :
         Bind([form_elements EXCEPT
                 !.start_time_dropdown = IF category = "start_time" THEN d ELSE @,
                 !.end_time_dropdown = IF category = "end_time" THEN d ELSE @,
                 !.time_fields = IF category \in {"start_time", "end_time"}
                                    /\ \A i \in 1..Len(@) : @[i] # d
                                 THEN Append(@, d) ELSE @], LAMBDA fe :
             detect_selects(selects, ai, d + 1,
                 IF category = "time_generic" THEN fe
                 ELSE [fe EXCEPT !.ai_dropdowns =
                          Append(@, [element |-> d,
                                     ai_selection |-> ai_selection_of(selects[d], ai[d])])])))

\* detect_momentus_form_with_ai: what it records of the selects and buttons
detect_momentus_form_with_ai(selects, ai, page) ==
    detect_selects(selects, ai, 1,
        [start_time_dropdown |-> 0, end_time_dropdown |-> 0,
         time_fields |-> detect_time_fields(selects),
         ai_dropdowns |-> <<>>,
         buttons |-> detect_buttons(page)])

\* the text without the characters of cs: s.replace(c, '') for each of them
Without(s, cs) == SelectSeq(s, LAMBDA c : c \notin cs)

\* s.lstrip('0')
lstrip_zeros(s) ==
    Bind(FirstIndex(Len(s), LAMBDA i : s[i] # "0"), LAMBDA a :
        IF a = 0 THEN <<>> ELSE SubSeq(s, a, Len(s)))

\* convert_to_12h_format: 'H:MM AM/PM' of a text 'h:m' of two numbers, the
\* text itself when it is not one
convert_to_12h_format(time_24h) ==
    Bind(FirstIndex(Len(time_24h), LAMBDA i : time_24h[i] = ":"), LAMBDA c :
        IF c > 1 /\ c < Len(time_24h)
              /\ DigitRun(time_24h, 1) = c - 1
              /\ DigitRun(time_24h, c + 1) = Len(time_24h) - c
        THEN Bind(NumVal(time_24h, 1, c - 1), LAMBDA hour :
                 Dec(IF hour % 12 = 0 THEN 12 ELSE hour % 12) \o <<":">>
                    \o Pad2(NumVal(time_24h, c + 1, Len(time_24h) - c))
                    \o (IF hour < 12 THEN <<" ", "A", "M">> ELSE <<" ", "P", "M">>))
        ELSE time_24h)

\* the four spellings of a time that the start and end steps try
time_formats_to_try(t) ==
    <<t, convert_to_12h_format(t), Without(t, {":"}), lstrip_zeros(t)>>

\* lines 1520-1533 (and 1564-1577): the option selected for a time, 0 when
\* no spelling matches an option
RECURSIVE match_time_option(_, _, _)
match_time_option(options, formats, f) ==
    IF f > Len(formats) THEN 0
    ELSE Bind(FirstIndex(Len(options), LAMBDA k :
                  \/ Contains(strip(options[k].text), formats[f])
                  \/ Lower(Without(strip(options[k].text), {":", " "}))
                        = Lower(Without(formats[f], {":", " "}))),
              LAMBDA k :
                  IF k # 0 THEN select_by_visible_text(options, strip(options[k].text)).selected
                  ELSE match_time_option(options, formats, f + 1))

\* an option of dropdown d was selected by a step
select_option(st, d, k, step) ==
    [st EXCEPT !.selected[d] = k,
               !.writes = Append(@, [element |-> d, option |-> k, step |-> step]),
               !.success_count = @ + 1]

\* lines 1499-1541 and 1543-1585: the start and the end time dropdown
fill_time_dropdown(selects, st, d, t, step) ==
    IF t = <<>> \/ d = 0 THEN st
    ELSE Bind(match_time_option(selects[d].options, time_formats_to_try(t), 1), LAMBDA k :
             IF k = 0 THEN st ELSE select_option(st, d, k, step))

\* lines 1587-1624: the time fields that are neither, the first for the start
\* and the second for the end time
remaining_time_fields(form_elements) ==
    SelectSeq(form_elements.time_fields, LAMBDA d :
        d # form_elements.start_time_dropdown /\ d # form_elements.end_time_dropdown)

fill_remaining_field(selects, st, d, t) ==
    IF t = <<>> THEN st
    ELSE Bind(FirstIndex(Len(selects[d].options), LAMBDA k :
                  \/ Contains(selects[d].options[k].text, t)
                  \/ Contains(selects[d].options[k].text, convert_to_12h_format(t))),
              LAMBDA k :
                  IF k = 0 THEN st
                  ELSE select_option(st, d,
                          select_by_visible_text(selects[d].options, selects[d].options[k].text).selected,
                          "remaining"))

fill_remaining_times(selects, criteria, st) ==
    Bind(remaining_time_fields(st.form_elements), LAMBDA rest :
        IF Len(rest) = 0 \/ (criteria.start_time = <<>> /\ criteria.end_time = <<>>) THEN st
        ELSE Bind(fill_remaining_field(selects, st, rest[1], criteria.start_time), LAMBDA st1 :
                 IF Len(rest) = 1 THEN st1
                 ELSE fill_remaining_field(selects, st1, rest[2], criteria.end_time)))

\* lines 1671-1729: the option for an AI selection, the exact text first,
\* then either text containing the other
ai_option(options, ai_selection) ==
    Bind(FirstIndex(Len(options), LAMBDA k : strip(options[k].text) = ai_selection), LAMBDA e :
        IF e # 0 THEN e
        ELSE FirstIndex(Len(options), LAMBDA k :
                \/ Contains(Lower(options[k].text), Lower(ai_selection))
                \/ Contains(Lower(ai_selection), Lower(options[k].text))))

\* the write of an AI selection into the dropdown it was made for
fill_ai_dropdown(selects, st, info) ==
    IF ~Given(info.ai_selection) THEN st
    ELSE Bind(ai_option(selects[info.element].options, info.ai_selection.value), LAMBDA k :
             IF k = 0 THEN st
             ELSE select_option(st, info.element,
                     select_by_visible_text(selects[info.element].options,
                                            selects[info.element].options[k].text).selected,
                     "ai"))

RECURSIVE fill_ai_dropdowns(_, _, _)
fill_ai_dropdowns(selects, st, i) ==
    IF i > Len(st.form_elements.ai_dropdowns) THEN st
    ELSE fill_ai_dropdowns(selects,
            fill_ai_dropdown(selects, st, st.form_elements.ai_dropdowns[i]), i + 1)

TimeOptions == <<<<"1", "0", ":", "0", "0", " ", "A", "M">>, <<"1", "1", ":", "0", "0", " ", "A", "M">>, <<"1", ":", "0", "0", " ", "P", "M">>>>

SelectKinds ==
    {Dropdown(<<"s", "t", "a", "r", "t", "_", "t", "i", "m", "e">>, TimeOptions),
     Dropdown(<<"e", "n", "d", "_", "t", "i", "m", "e">>, TimeOptions),
     Dropdown(<<"s", "l", "o", "t">>, TimeOptions),
     Dropdown(<<"b", "u", "i", "l", "d", "i", "n", "g">>, <<<<"M", "a", "i", "n", " ", "H", "a", "l", "l">>, <<"L", "i", "b", "r", "a", "r", "y">>>>),
     Dropdown(<<"b", "e", "g", "i", "n">>, <<<<"S", "e", "l", "e", "c", "t">>, <<"N", "o", "n", "e">>>>)}

\* the selects of a page, in document order
SelectPages ==
    {<<>>} \cup {<<s>> : s \in SelectKinds}
        \cup {<<s, t>> : s \in {Dropdown(<<"s", "t", "a", "r", "t", "_", "t", "i", "m", "e">>, TimeOptions)}, t \in SelectKinds}
        \cup {<<Dropdown(<<"e", "n", "d", "_", "t", "i", "m", "e">>, TimeOptions), Dropdown(<<"s", "t", "a", "r", "t", "_", "t", "i", "m", "e">>, TimeOptions)>>,
              <<Dropdown(<<"s", "l", "o", "t">>, TimeOptions), Dropdown(<<"s", "l", "o", "t">>, TimeOptions)>>}

SmartCriteria ==
    [start_time : {<<>>, <<"1", "0", ":", "0", "0">>, <<"1", "3", ":", "0", "0">>}, end_time : {<<>>, <<"1", "1", ":", "0", "0">>}]

\* the buttons of a page
ButtonPages == {p \in ControlPages : Len(p) <= 1}

\* one run: the page's selects and buttons, the criteria, the matcher's
\* answer for every select, whether the date and the attendees inputs take a
\* value, and whether a click on a button raises
SmartForms ==
    UNION {[selects : {s}, page : ButtonPages, criteria : SmartCriteria,
            ai : {a \in [1..Len(s) -> 0..Len(TimeOptions)] :
                     \A d \in 1..Len(s) : a[d] <= Len(option_texts(s[d]))},
            date_filled : BOOLEAN, attendees_filled : BOOLEAN, click_raises : BOOLEAN] :
           s \in SelectPages}

NotDetected ==
    [form_elements |-> <<>>, selected |-> <<>>, writes |-> <<>>, success_count |-> 0,
     submit_called |-> FALSE, clicked |-> 0, submit_success |-> FALSE]

InitSmartForm ==
    /\ op = "smart_form_pass"
    /\ variant = "smart"
    /\ arg \in SmartForms
    /\ now = Now0
    /\ libcPadsYear = FALSE
    /\ ret = NotDetected
    /\ first = <<>>
    /\ pc = "call"
    /\ environ = <<>>
    /\ session = <<>>
    /\ history = <<>>
    /\ disk = <<>>
    /\ procs = <<>>
    /\ clock = 0
    /\ driver = "none"

\* smart_room_booking_workflow, line 256
DetectForm ==
    /\ pc = "call"
    /\ op = "smart_form_pass"
    /\ ret' = [ret EXCEPT
                 !.form_elements = detect_momentus_form_with_ai(arg.selects, arg.ai, arg.page),
                 !.selected = [d \in 1..Len(arg.selects) |-> 0]]
    /\ pc' = "fill_date"
    /\ UNCHANGED <<now, libcPadsYear, op, variant, arg, first, environ, session, history, disk, procs, clock, driver>>

\* fill_momentus_form_with_ai, lines 1444-1497: the date inputs
FillDate ==
    /\ pc = "fill_date"
    /\ ret' = [ret EXCEPT !.success_count = IF arg.date_filled THEN @ + 1 ELSE @]
    /\ pc' = "fill_start_time"
    /\ UNCHANGED <<now, libcPadsYear, op, variant, arg, first, environ, session, history, disk, procs, clock, driver>>

\* lines 1499-1541
FillStartTime ==
    /\ pc = "fill_start_time"
    /\ ret' = fill_time_dropdown(arg.selects, ret, ret.form_elements.start_time_dropdown,
                                 arg.criteria.start_time, "start_time")
    /\ pc' = "fill_end_time"
    /\ UNCHANGED <<now, libcPadsYear, op, variant, arg, first, environ, session, history, disk, procs, clock, driver>>

\* lines 1543-1585
FillEndTime ==
    /\ pc = "fill_end_time"
    /\ ret' = fill_time_dropdown(arg.selects, ret, ret.form_elements.end_time_dropdown,
                                 arg.criteria.end_time, "end_time")
    /\ pc' = "fill_remaining"
    /\ UNCHANGED <<now, libcPadsYear, op, variant, arg, first, environ, session, history, disk, procs, clock, driver>>

\* lines 1587-1624
FillRemainingTimes ==
    /\ pc = "fill_remaining"
    /\ ret' = fill_remaining_times(arg.selects, arg.criteria, ret)
    /\ pc' = "fill_attendees"
    /\ UNCHANGED <<now, libcPadsYear, op, variant, arg, first, environ, session, history, disk, procs, clock, driver>>

\* lines 1630-1669: the attendees inputs
FillAttendees ==
    /\ pc = "fill_attendees"
    /\ ret' = [ret EXCEPT !.success_count = IF arg.attendees_filled THEN @ + 1 ELSE @]
    /\ pc' = "fill_ai"
    /\ UNCHANGED <<now, libcPadsYear, op, variant, arg, first, environ, session, history, disk, procs, clock, driver>>

\* lines 1671-1739; the workflow submits only after a fill that filled
\* something (lines 269-276)
FillAiDropdowns ==
    /\ pc = "fill_ai"
    /\ ret' = fill_ai_dropdowns(arg.selects, ret, 1)
    /\ pc' = IF fill_ai_dropdowns(arg.selects, ret, 1).success_count > 0 THEN "submit" ELSE "ret"
    /\ UNCHANGED <<now, libcPadsYear, op, variant, arg, first, environ, session, history, disk, procs, clock, driver>>

\* submit_momentus_form_smart, lines 1758-1788
SubmitForm ==
    /\ pc = "submit"
    /\ op = "smart_form_pass"
    /\ ret' = [ret EXCEPT
                 !.submit_called = TRUE,
                 !.clicked = submit_momentus_form_smart(ret.form_elements.buttons),
                 !.submit_success = submit_momentus_form_smart(ret.form_elements.buttons) # 0
                                       /\ ~arg.click_raises]
    /\ pc' = "ret"
    /\ UNCHANGED <<now, libcPadsYear, op, variant, arg, first, environ, session, history, disk, procs, clock, driver>>

NextSmartForm ==
    \/ DetectForm
    \/ FillDate
    \/ FillStartTime
    \/ FillEndTime
    \/ FillRemainingTimes
    \/ FillAttendees
    \/ FillAiDropdowns
    \/ SubmitForm

SpecSmartForm == InitSmartForm /\ [][NextSmartForm]_vars

(***************************************************************************)
(* The Flask routes (app/web_interface.py).  session is the client's       *)
(* session as the server sees it, environ the process environment, history *)
(* the requests served so far.  A request body is a JSON object or not     *)
(* (request.get_json() answering None or raising), and each handler is one *)
(* action.                                                                 *)
(***************************************************************************)
\* Python's  a or b
PyOr(a, b) == IF Given(a) THEN a ELSE b

NoSession == [username |-> PyNone, password |-> PyNone]

NoEnviron == [MOMENTUS_USERNAME |-> PyNone, MOMENTUS_PASSWORD |-> PyNone]

\* a response: the status, whether the body has 'error', whether it has
\* 'success', and whether automation.login was called while serving it
Response(status, login) ==
    [status |-> status, error |-> status # 200, success |-> FALSE, login_attempted |-> login]

Success(login) ==
    [status |-> 200, error |-> FALSE, success |-> TRUE, login_attempted |-> login]

\* search_rooms' answer {'rooms': rooms}
Rooms == [status |-> 200, error |-> FALSE, success |-> FALSE, login_attempted |-> TRUE]

\* login(), lines 124-143
api_login(sess, body) ==
    IF ~body.object THEN [session |-> sess, response |-> Response(500, FALSE)]
    ELSE IF ~Given(body.username) \/ ~Given(body.password)
         THEN [session |-> sess, response |-> Response(400, FALSE)]
         ELSE [session |-> [username |-> body.username, password |-> body.password],
               response |-> Success(FALSE)]

\* logout(), lines 145-149
api_logout(sess) == [session |-> NoSession, response |-> Success(FALSE)]

\* book_room() that looks for credentials before it looks at room_id
api_book_credsfirst(sess, env, body, world) ==
    IF ~body.object THEN Response(500, FALSE)
    ELSE Bind(PyOr(sess.username, env.MOMENTUS_USERNAME), LAMBDA username :
         Bind(PyOr(sess.password, env.MOMENTUS_PASSWORD), LAMBDA password :
             IF ~Given(username) \/ ~Given(password) THEN Response(401, FALSE)
             ELSE IF ~Given(body.room_id) THEN Response(400, FALSE)
             ELSE IF world.login = "fail"
                  THEN IF world.close_raises THEN Response(500, TRUE) ELSE Response(401, TRUE)
             ELSE IF world.close_raises THEN Response(500, TRUE)
             ELSE IF world.book = "ok" THEN Success(TRUE)
             ELSE Response(500, TRUE)))

\* book_room(), lines 51-90; world is what the browser does: whether the
\* login and the booking succeed and whether closing the driver raises
api_book(sess, env, body, world) ==
    IF ~body.object THEN Response(500, FALSE)
    ELSE IF ~Given(body.room_id) THEN Response(400, FALSE)
    ELSE Bind(PyOr(sess.username, env.MOMENTUS_USERNAME), LAMBDA username :
         Bind(PyOr(sess.password, env.MOMENTUS_PASSWORD), LAMBDA password :
             IF ~Given(username) \/ ~Given(password) THEN Response(401, FALSE)
             ELSE IF world.login = "fail"
                  THEN IF world.close_raises THEN Response(500, TRUE) ELSE Response(401, TRUE)
             ELSE IF world.close_raises THEN Response(500, TRUE)
             ELSE IF world.book = "ok" THEN Success(TRUE)
             ELSE Response(500, TRUE)))

\* search_rooms(), lines 92-122
api_search(sess, env, body, world) ==
    IF ~body.object THEN Response(500, FALSE)
    ELSE Bind(PyOr(sess.username, env.MOMENTUS_USERNAME), LAMBDA username :
         Bind(PyOr(sess.password, env.MOMENTUS_PASSWORD), LAMBDA password :
             IF ~Given(username) \/ ~Given(password) THEN Response(401, FALSE)
             ELSE IF world.login = "fail"
                  THEN IF world.close_raises THEN Response(500, TRUE) ELSE Response(401, TRUE)
             ELSE IF world.close_raises THEN Response(500, TRUE)
             ELSE Rooms))

\* request bodies and what the browser does
NotAnObject == [object |-> FALSE]

LoginBody(u, p) == [object |-> TRUE, username |-> u, password |-> p]

LoginBodies ==
    {NotAnObject,
     LoginBody(PyStr(<<"a", "l", "i", "c", "e">>), PyStr(<<"p", "w">>)),
     LoginBody(PyStr(<<"b", "o", "b">>), PyStr(<<"p", "w">>)),
     LoginBody(PyStr(<<"b", "o", "b">>), PyNone),
     LoginBody(PyNone, PyStr(<<"p", "w">>)),
     LoginBody(PyStr(<<>>), PyStr(<<>>))}

BookBodies ==
    {NotAnObject} \cup
        {[object |-> TRUE, room_id |-> r] : r \in {PyNone, PyStr(<<>>), PyStr(<<"R", "1">>)}}

SearchBodies == {NotAnObject, [object |-> TRUE]}

Worlds == [login : {"ok", "fail"}, book : {"ok", "fail"}, close_raises : BOOLEAN]

Environs ==
    {NoEnviron,
     [MOMENTUS_USERNAME |-> PyStr(<<"s", "v", "c">>), MOMENTUS_PASSWORD |-> PyNone],
     [MOMENTUS_USERNAME |-> PyStr(<<"s", "v", "c">>), MOMENTUS_PASSWORD |-> PyStr(<<"p", "w">>)]}

MaxRequests == 3

InitWeb ==
    /\ op = "create_app"
    /\ variant = "app"
    /\ arg = <<>>
    /\ now = Now0
    /\ libcPadsYear = FALSE
    /\ ret = <<>>
    /\ first = <<>>
    /\ pc = "call"
    /\ environ \in Environs
    /\ session = NoSession
    /\ history = <<>>
    /\ disk = <<>>
    /\ procs = <<>>
    /\ clock = 0
    /\ driver = "none"

ApiLogin ==
    /\ Len(history) < MaxRequests
    /\ \E body \in LoginBodies :
          /\ op' = "login"
          /\ arg' = [body |-> body]
          /\ session' = api_login(session, body).session
          /\ ret' = api_login(session, body).response
          /\ history' = Append(history, [route |-> "login", body |-> body])
    /\ pc' = "ret"
    /\ UNCHANGED <<now, libcPadsYear, variant, first, environ, disk, procs, clock, driver>>

ApiLogout ==
    /\ Len(history) < MaxRequests
    /\ op' = "logout"
    /\ arg' = <<>>
    /\ session' = api_logout(session).session
    /\ ret' = api_logout(session).response
    /\ history' = Append(history, [route |-> "logout"])
    /\ pc' = "ret"
    /\ UNCHANGED <<now, libcPadsYear, variant, first, environ, disk, procs, clock, driver>>

ApiBook ==
    /\ Len(history) < MaxRequests
    /\ \E body \in BookBodies, world \in Worlds :
          /\ op' = "book_room"
          /\ arg' = [body |-> body, world |-> world]
          /\ ret' = api_book(session, environ, body, world)
    /\ history' = Append(history, [route |-> "book_room"])
    /\ pc' = "ret"
    /\ UNCHANGED <<now, libcPadsYear, variant, first, environ, session, disk, procs, clock, driver>>

ApiSearch ==
    /\ Len(history) < MaxRequests
    /\ \E body \in SearchBodies, world \in Worlds :
          /\ op' = "search_rooms"
          /\ arg' = [body |-> body, world |-> world]
          /\ ret' = api_search(session, environ, body, world)
    /\ history' = Append(history, [route |-> "search_rooms"])
    /\ pc' = "ret"
    /\ UNCHANGED <<now, libcPadsYear, variant, first, environ, session, disk, procs, clock, driver>>

NextWeb ==
    \/ ApiLogin
    \/ ApiLogout
    \/ ApiBook
    \/ ApiSearch

SpecWeb == InitWeb /\ [][NextWeb]_vars

(***************************************************************************)
(* The browser driver of a /api/book or /api/search request                *)
(* (app/web_interface.py, MomentusAutomation.login, setup_driver and close *)
(* in app/browser_automation.py), one action per step of the handler.      *)
(* driver is the browser of the request's MomentusAutomation: "none" while *)
(* no browser was started, "open" once setup_driver has started one,       *)
(* "quit" after driver.quit().                                             *)
(***************************************************************************)
\* setup_driver, lines 31-73: no browser when both webdriver.Chrome calls
\* raise, else a browser, also when the script that follows raises
setup_driver(setup) == IF setup = "no_browser" THEN "none" ELSE "open"

\* MomentusAutomation.login, lines 76-81 and 255-260: the driver is set up
\* when there is none; whatever is raised is answered with False
login_driver(d, setup) == IF d = "none" THEN setup_driver(setup) ELSE d

\* a close that leaves the browser running
close_nothing(d) == d

\* MomentusAutomation.close, lines 1291-1295: the driver, when there is one,
\* is quit.  A quit that raises has ended the browser all the same.
close(d) == IF d = "none" THEN d ELSE "quit"

\* what the browser does during a request: how setup_driver ends, whether
\* the login form accepts the credentials, whether the booking succeeds and
\* whether driver.quit() raises
DriverWorlds ==
    [setup : {"ok", "no_browser", "script_raises"}, login : {"ok", "fail"},
     book : {"ok", "fail"}, close_raises : BOOLEAN]

\* login() answered True
login_success(world) == world.setup = "ok" /\ world.login = "ok"

\* the same request as api_book and api_search see it
WorldOf(world) ==
    [login |-> IF login_success(world) THEN "ok" ELSE "fail", book |-> world.book,
     close_raises |-> world.close_raises]

Sessions ==
    {NoSession, [username |-> PyStr(<<"a", "l", "i", "c", "e">>), password |-> PyStr(<<"p", "w">>)]}

InitDriver ==
    /\ op \in {"book_room", "search_rooms"}
    /\ variant = "app"
    /\ arg \in [body : IF op = "book_room" THEN BookBodies ELSE SearchBodies, world : DriverWorlds]
    /\ now = Now0
    /\ libcPadsYear = FALSE
    /\ ret = <<>>
    /\ first = <<>>
    /\ pc = "call"
    /\ environ \in Environs
    /\ session \in Sessions
    /\ history = <<>>
    /\ disk = <<>>
    /\ procs = <<>>
    /\ clock = 0
    /\ driver = "none"

\* the response of the handler to the request
ResponseOf ==
    IF op = "book_room" THEN api_book(session, environ, arg.body, WorldOf(arg.world))
    ELSE api_search(session, environ, arg.body, WorldOf(arg.world))

\* lines 55-72 and 96-106: the body is read, MomentusAutomation is created
\* without a browser and the credentials are looked up; a request that is
\* answered 400, 401 or 500 here returns
ReadRequest ==
    /\ pc = "call"
    /\ IF ResponseOf.login_attempted
       THEN pc' = "login" /\ ret' = ret
       ELSE pc' = "ret" /\ ret' = ResponseOf
    /\ UNCHANGED <<now, libcPadsYear, op, variant, arg, first, environ, session, history, disk, procs, clock, driver>>

\* lines 74 and 108: automation.login
LoginStep ==
    /\ pc = "login"
    /\ driver' = login_driver(driver, arg.world.setup)
    /\ pc' = IF login_success(arg.world) THEN "work" ELSE "close"
    /\ UNCHANGED <<now, libcPadsYear, op, variant, arg, ret, first, environ, session, history, disk, procs, clock>>

\* lines 80 and 113: automation.book_room or automation.search_rooms, which
\* answer False or [] when anything is raised
WorkStep ==
    /\ pc = "work"
    /\ pc' = "close"
    /\ UNCHANGED <<now, libcPadsYear, op, variant, arg, ret, first, environ, session, history, disk, procs, clock, driver>>

\* lines 76-77, 81-86, 111-112 and 114-116: automation.close() and the
\* response (the one of the except clause when close raised)
CloseStep ==
    /\ pc = "close"
    /\ driver' = close(driver)
    /\ ret' = ResponseOf
    /\ pc' = "ret"
    /\ UNCHANGED <<now, libcPadsYear, op, variant, arg, first, environ, session, history, disk, procs, clock>>

NextDriver ==
    \/ ReadRequest
    \/ LoginStep
    \/ WorkStep
    \/ CloseStep

SpecDriver == InitDriver /\ [][NextDriver]_vars

(***************************************************************************)
(* save_booking_history (app/utils.py).  disk is booking_history.json: its *)
(* text, whether it exists, and how often it was opened for writing.       *)
(* procs holds, for every thread or process that calls the function, the   *)
(* position in it and its local variables.  history lists the calls that   *)
(* have returned, in that order: whether the call got to its end without   *)
(* an exception, the booking data it was given, the entry it appended, and *)
(* the number of openings for writing the file had seen when the call      *)
(* looked at it.                                                           *)
(***************************************************************************)
NewLine == <<"\n">>

Indent(level) == Repeat(<<" ", " ">>, level)

Dumped(text) == [ok |-> TRUE, text |-> text]

\* the text written before TypeError (not JSON serializable) was raised
DumpFailed(text) == [ok |-> FALSE, text |-> text]

RECURSIVE json_dump(_, _)
RECURSIVE dump_items(_, _, _)
RECURSIVE dump_members(_, _, _)

\* json.dump(v, f, indent=2) of a value nested in level containers
json_dump(v, level) ==
    IF v.t = "str" THEN Dumped(<<"\"">> \o v.s \o <<"\"">>)
    ELSE IF v.t = "int" THEN Dumped(Dec(v.n))
    ELSE IF v.t = "null" THEN Dumped(StrNull)
    ELSE IF v.t = "list"
         THEN IF v.items = <<>> THEN Dumped(<<"[", "]">>)
              ELSE Bind(dump_items(v.items, 1, level + 1), LAMBDA r :
                       [ok |-> r.ok, text |-> <<"[">> \o r.text])
    ELSE IF v.t = "dict"
         THEN IF v.items = <<>> THEN Dumped(<<"{", "}">>)
              ELSE Bind(dump_members(v.items, 1, level + 1), LAMBDA r :
                       [ok |-> r.ok, text |-> <<"{">> \o r.text])
    ELSE DumpFailed(<<>>)

\* the items of a list from item k on, and the closing bracket
dump_items(items, k, level) ==
    Bind(json_dump(items[k], level), LAMBDA d :
        IF ~d.ok THEN DumpFailed(NewLine \o Indent(level) \o d.text)
        ELSE IF k = Len(items)
        THEN Dumped(NewLine \o Indent(level) \o d.text \o NewLine \o Indent(level - 1) \o <<"]">>)
        ELSE Bind(dump_items(items, k + 1, level), LAMBDA r :
                 [ok |-> r.ok,
                  text |-> NewLine \o Indent(level) \o d.text \o <<",">> \o r.text]))

\* the members of a dict from member k on, and the closing brace
dump_members(items, k, level) ==
    Bind(json_dump(items[k].v, level), LAMBDA d :
        Bind(NewLine \o Indent(level) \o <<"\"">> \o items[k].k \o <<"\"", ":", " ">>,
             LAMBDA key :
                IF ~d.ok THEN DumpFailed(key \o d.text)
                ELSE IF k = Len(items)
                THEN Dumped(key \o d.text \o NewLine \o Indent(level - 1) \o <<"}">>)
                ELSE Bind(dump_members(items, k + 1, level), LAMBDA r :
                         [ok |-> r.ok, text |-> key \o d.text \o <<",">> \o r.text])))

StrTimestamp == <<"t", "i", "m", "e", "s", "t", "a", "m", "p">>

\* datetime.now().isoformat() at second tick of the day of now
isoformat(n, tick) ==
    Pad4(n.y) \o <<"-">> \o Pad2(n.m) \o <<"-">> \o Pad2(n.d)
        \o <<"T", "1", "0", ":", "0", "0", ":">> \o Pad2(tick)

\* lines 141-144 with the file's current text read again before appending
append_history_reread(loaded, text, booking_data) ==
    IF json_loads(text).err = "none" /\ json_loads(text).val.t = "list"
    THEN Returned(JArray(Append(json_loads(text).val.items, booking_data)))
    ELSE IF loaded.t = "list"
         THEN Returned(JArray(Append(loaded.items, booking_data)))
         ELSE Raised("AttributeError")

\* lines 141-144 with the new entry put in front
append_history_front(loaded, text, booking_data) ==
    IF loaded.t = "list"
    THEN Returned(JArray(<<booking_data>> \o loaded.items))
    ELSE Raised("AttributeError")

\* history.append(booking_data), line 144: loaded is what json.load gave
\* (or the empty list), text the file's text at this moment, which is not
\* looked at
append_history(loaded, text, booking_data) ==
    IF loaded.t = "list"
    THEN Returned(JArray(Append(loaded.items, booking_data)))
    ELSE Raised("AttributeError")

\* f.write at the start of a file opened with 'w' by this writer: text that
\* another writer put behind the end of ours stays
write_at_start(old, text) == text \o SubSeq(old, Len(text) + 1, Len(old))

\* a value json.dump cannot serialise
Unserialisable == [t |-> "set"]

BookingData ==
    {JObject(<<[k |-> <<"d", "a", "t", "e">>, v |-> JStr(<<"2", "0", "2", "7", "-", "0", "8", "-", "1", "7">>)]>>),
     JObject(<<[k |-> StrTimestamp, v |-> JStr(<<"o", "l", "d">>)], [k |-> <<"r", "o", "o", "m">>, v |-> JInt(12)]>>),
     JObject(<<[k |-> <<"r", "o", "o", "m">>, v |-> Unserialisable]>>)}

OldEntry ==
    JObject(<<[k |-> <<"d", "a", "t", "e">>, v |-> JStr(<<"2", "0", "2", "7", "-", "0", "8", "-", "0", "1">>)],
              [k |-> StrTimestamp, v |-> JStr(<<"2", "0", "2", "7", "-", "0", "8", "-", "0", "1", "T", "0", "9", ":", "0", "0", ":", "0", "0">>)]>>)

NoFile == [exists |-> FALSE, text |-> <<>>, writes |-> 0]

FileOf(text) == [exists |-> TRUE, text |-> text, writes |-> 0]

\* the file before the first call: absent, an array the function wrote, an
\* object, or a text that is no JSON
InitialFiles ==
    {NoFile,
     FileOf(json_dump(JArray(<<>>), 0).text),
     FileOf(json_dump(JArray(<<OldEntry>>), 0).text),
     FileOf(<<"{", "}">>),
     FileOf(<<"[">>)}

MaxCalls == 2

MaxTick == 1

Idle == [pc |-> "idle"]

InitSaveOf(n) ==
    /\ op = "save_booking_history"
    /\ variant = "app"
    /\ arg \in InitialFiles
    /\ now = Now0
    /\ libcPadsYear = FALSE
    /\ ret = <<>>
    /\ first = <<>>
    /\ pc = "call"
    /\ environ = <<>>
    /\ session = <<>>
    /\ history = <<>>
    /\ disk = arg
    /\ procs = [p \in 1..n |-> Idle]
    /\ clock = 0
    /\ driver = "none"

\* one thread of one process
InitSave == InitSaveOf(1)

\* two concurrent invocations
InitSaveConcurrent == InitSaveOf(2)

InFlight == Cardinality({p \in DOMAIN procs : procs[p].pc # "idle"})

\* the call returns: with ok when it reached line 150, without when the
\* except clause at 152 caught something
Return(p, ok) ==
    /\ procs' = [procs EXCEPT ![p] = Idle]
    /\ history' = Append(history, [ok |-> ok, given |-> procs[p].given,
                                   entry |-> procs[p].booking_data,
                                   seen |-> procs[p].seen])

\* save_booking_history(booking_data) is called
SaveCall(p) ==
    /\ procs[p].pc = "idle"
    /\ Len(history) + InFlight < MaxCalls
    /\ \E booking_data \in BookingData :
          procs' = [procs EXCEPT ![p] =
                       [pc |-> "exists", given |-> booking_data,
                        booking_data |-> booking_data,
                        loaded |-> JArray(<<>>), seen |-> 0]]
    /\ UNCHANGED <<now, libcPadsYear, op, variant, arg, ret, first, pc, environ, session,
                   history, disk, clock, driver>>

\* os.path.exists(history_file), lines 134 and 137-138
SaveExists(p) ==
    /\ procs[p].pc = "exists"
    /\ procs' = [procs EXCEPT ![p].pc = IF disk.exists THEN "load" ELSE "stamp",
                              ![p].seen = disk.writes]
    /\ UNCHANGED <<now, libcPadsYear, op, variant, arg, ret, first, pc, environ, session,
                   history, disk, clock, driver>>

\* open(history_file, 'r') and json.load, lines 135-136
SaveLoad(p) ==
    /\ procs[p].pc = "load"
    /\ IF json_loads(disk.text).err = "none"
       THEN /\ procs' = [procs EXCEPT ![p].pc = "stamp",
                                      ![p].loaded = json_loads(disk.text).val,
                                      ![p].seen = disk.writes]
            /\ UNCHANGED history
       ELSE Return(p, FALSE)
    /\ UNCHANGED <<now, libcPadsYear, op, variant, arg, ret, first, pc, environ, session,
                   disk, clock, driver>>

\* booking_data['timestamp'] = datetime.now().isoformat() and
\* history.append(booking_data), lines 141-144; the clock may have ticked
SaveStamp(p) ==
    /\ procs[p].pc = "stamp"
    /\ \E tick \in clock..(IF clock < MaxTick THEN clock + 1 ELSE clock) :
          /\ clock' = tick
          /\ Bind(dict_set(procs[p].booking_data.items, StrTimestamp,
                           JStr(isoformat(now, tick))),
                  LAMBDA items :
                     Bind(append_history(procs[p].loaded, disk.text, JObject(items)),
                          LAMBDA h :
                             IF h.raised = "none"
                             THEN /\ procs' = [procs EXCEPT ![p].pc = "open",
                                                            ![p].booking_data = JObject(items),
                                                            ![p].loaded = h.value]
                                  /\ UNCHANGED history
                             ELSE /\ procs' = [procs EXCEPT ![p] = Idle]
                                  /\ history' = Append(history,
                                         [ok |-> FALSE, given |-> procs[p].given,
                                          entry |-> JObject(items),
                                          seen |-> procs[p].seen])))
    /\ UNCHANGED <<now, libcPadsYear, op, variant, arg, ret, first, pc, environ, session, disk, driver>>

\* open(history_file, 'w'), line 147: the file is created or truncated
SaveOpen(p) ==
    /\ procs[p].pc = "open"
    /\ disk' = [exists |-> TRUE, text |-> <<>>, writes |-> disk.writes + 1]
    /\ procs' = [procs EXCEPT ![p].pc = "dump"]
    /\ UNCHANGED <<now, libcPadsYear, op, variant, arg, ret, first, pc, environ, session,
                   history, clock, driver>>

\* json.dump(history, f, indent=2) and the close of the file, line 148: what
\* was encoded is written, also when the encoding stopped with TypeError
SaveDump(p) ==
    /\ procs[p].pc = "dump"
    /\ disk' = [disk EXCEPT !.text = write_at_start(disk.text, json_dump(procs[p].loaded, 0).text)]
    /\ Return(p, json_dump(procs[p].loaded, 0).ok)
    /\ UNCHANGED <<now, libcPadsYear, op, variant, arg, ret, first, pc, environ, session, clock, driver>>

NextSave ==
    \E p \in DOMAIN procs :
        \/ SaveCall(p)
        \/ SaveExists(p)
        \/ SaveLoad(p)
        \/ SaveStamp(p)
        \/ SaveOpen(p)
        \/ SaveDump(p)

SpecSave == InitSave /\ [][NextSave]_vars

SpecSaveConcurrent == InitSaveConcurrent /\ [][NextSave]_vars

(***************************************************************************)
(* Properties                                                              *)
(***************************************************************************)
TodayOf(n) == <<n.y, n.m, n.d>>

\* a text HH:MM with HH in 00..23 and MM in 00..59
IsClock(s) ==
    /\ Len(s) = 5
    /\ \A i \in {1, 2, 4, 5} : s[i] \in Digits
    /\ s[3] = ":"
    /\ NumVal(s, 1, 2) <= 23
    /\ NumVal(s, 4, 2) <= 59

\* the clock text of t minutes after midnight
ClockText(t) == Pad2(t \div 60) \o <<":">> \o Pad2(t % 60)

ReqSet == {Requirements[r] : r \in 1..Len(Requirements)}

\* C1: with the current time fixed, normalize_date of a date string in a
\* supported format never returns a calendar date earlier than today
C1_NeverBeforeToday ==
    (op = "normalize_date" /\ pc = "ret" /\ arg \in SupportedDateStrings)
        => ~DayBefore(DateOf(ret), TodayOf(now))

\* C2: every start_time and end_time that the smart workflow's
\* extract_criteria_from_ai_response returns is a text HH:MM with HH in
\* 00..23 and MM in 00..59
C2_TimesAreClockTexts ==
    (op = "extract_criteria" /\ pc = "ret" /\ variant = "smart")
        => IsClock(ret.start_time) /\ IsClock(ret.end_time)

\* C3: the capacity of the criteria is always an integer: the first run of
\* digits of a text that has digits, the number itself when the reply gives
\* a number, and 8 when the capacity is null or a text without digits
C3_CapacityIsInteger ==
    (op = "extract_criteria" /\ pc = "ret" /\ variant \in {"smart", "complete"})
        => LET c == arg.extracted.capacity IN
           /\ ret.capacity.t = "int"
           /\ (c.t = "str" /\ FirstInt(c.s) >= 0) => ret.capacity.n = FirstInt(c.s)
           /\ c.t = "int" => ret.capacity.n = c.n
           /\ (c.t = "null" \/ (c.t = "str" /\ FirstInt(c.s) < 0))
                 => ret.capacity.n = DefaultCapacity

\* C4: in the mapping analyze_and_map_fields returns no page element is
\* associated with more than one requirement
C4_NoElementMappedTwice ==
    (op = "analyze_and_map_fields" /\ pc = "ret")
        => \A r1, r2 \in ReqSet :
              (r1 # r2 /\ ret.field_mappings[r1] # 0)
                  => ret.field_mappings[r1] # ret.field_mappings[r2]

\* the largest score of a requirement over the inventory, 0 for an empty one
BestScore(fields, req) ==
    IF Len(fields) = 0 THEN 0
    ELSE LET i == CHOOSE x \in 1..Len(fields) :
                     \A z \in 1..Len(fields) : ScoreOf(fields, x, req) >= ScoreOf(fields, z, req)
         IN  ScoreOf(fields, i, req)

\* the first element of the inventory with that score
FirstWithScore(fields, req, sc) ==
    CHOOSE x \in 1..Len(fields) :
        /\ ScoreOf(fields, x, req) = sc
        /\ \A z \in 1..(x - 1) : ScoreOf(fields, z, req) # sc

C6_ScenarioFillsFour ==
    (op = "booking_workflow" /\ pc = "ret")
        => /\ ret.field_mappings.date = 1
           /\ ret.field_mappings.capacity = 2
           /\ ret.field_mappings.start_time = 3
           /\ ret.field_mappings.end_time = 4
           /\ ret.filled.success_count >= 4

\* C7: normalize_date is idempotent on the supported date strings: the
\* second normalization returns what the first returned
C7_Idempotent ==
    (op = "normalize_date" /\ pc = "ret2" /\ arg \in SupportedDateStrings)
        => ret = first

\* C8: a month and a day without a year yield that day in the current year
\* when it is not before now, and in the following year otherwise (where
\* that day exists in that year)
C8_MonthDayYear ==
    (op = "normalize_date" /\ pc = "ret")
        => \A m \in StrMonths, d \in StrDays, l \in BOOLEAN :
              LET y == IF Before([year |-> now.y, month |-> m, day |-> d], now)
                       THEN now.y + 1 ELSE now.y
              IN  (arg = NameOf(m, l) \o <<" ">> \o Dec(d) /\ d <= DaysIn(y, m))
                      => ret = Pad4(y) \o <<"-">> \o Pad2(m) \o <<"-">> \o Pad2(d)

\* C9: normalize_time turns 'h:mm PM' (h in 1..11) into (h+12):mm, '12:mm AM'
\* into 00:mm, keeps the hour of 'h:mm AM' and '12:mm PM', and turns a bare
\* hour H in 0..23 into HH:00
C9_ClockConversions ==
    (op = "normalize_time" /\ pc = "ret")
        => \A h \in ClockHours, m \in ClockMins :
              /\ (h \in 1..11 /\ arg = Colon(h, m) \o <<" ", "P", "M">>) => ret = ClockText(60 * (h + 12) + m)
              /\ (h = 12 /\ arg = Colon(h, m) \o <<" ", "A", "M">>) => ret = ClockText(m)
              /\ (h \in 1..11 /\ arg = Colon(h, m) \o <<" ", "A", "M">>) => ret = ClockText(60 * h + m)
              /\ (h = 12 /\ arg = Colon(h, m) \o <<" ", "P", "M">>) => ret = ClockText(60 * 12 + m)
              /\ (h \in 0..23 /\ arg = Dec(h)) => ret = ClockText(60 * h)

\* C10: for a start time HH:MM and a duration of d minutes, given in minutes
\* or in whole hours, calculate_end_time returns the clock text of
\* (60*HH + MM + d) mod 1440
C10_EndTimeWraps ==
    (op = "calculate_end_time" /\ pc = "ret" /\ IsClock(arg.start_time) /\ arg.duration.t = "str")
        => LET t0 == 60 * NumVal(arg.start_time, 1, 2) + NumVal(arg.start_time, 4, 2) IN
           /\ \A d \in 0..MaxMinutes :
                 arg.duration.s = MinutesText(d) => ret = ClockText((t0 + d) % 1440)
           /\ \A h \in 0..MaxHours :
                 arg.duration.s = HoursText(h) => ret = ClockText((t0 + 60 * h) % 1440)

\* 23:30 plus one hour is 00:30
C10_Witness ==
    /\ op = "calculate_end_time" /\ pc = "ret"
    /\ arg.start_time = <<"2", "3", ":", "3", "0">>
    /\ arg.duration = JStr(<<"1", " ", "h", "o", "u", "r">>)
    /\ ret = <<"0", "0", ":", "3", "0">>

\* C11: the minutes calculate_end_time adds are 60 times the first integer
\* of the duration text when the text contains 'hour' (also when it
\* mentions minutes as well), the first integer when it mentions only
\* minutes, and 60 when the text has no integer or names no unit
C11_DurationMinutes ==
    (op = "calculate_end_time" /\ pc = "ret" /\ IsClock(arg.start_time) /\ arg.duration.t = "str")
        => LET d  == arg.duration.s
               t0 == 60 * NumVal(arg.start_time, 1, 2) + NumVal(arg.start_time, 4, 2)
               added == IF FirstInt(d) < 0 THEN 60
                        ELSE IF Contains(d, StrHour) THEN 60 * FirstInt(d)
                        ELSE IF Contains(d, StrMinute) THEN FirstInt(d)
                        ELSE 60
           IN  ret = ClockText((t0 + added) % 1440)

ResponseTypes == {"booking_success", "search_results", "error", "unknown"}

\* C12: _handle_momentus_response returns one of the four types; a page
\* with a success marker is booking_success whatever else it contains, a
\* page with a search-result marker and no success marker is search_results,
\* and a page that was read is error only when it has an error marker and
\* neither a success nor a search-result marker
C12_ClassificationPriority ==
    (op = "handle_momentus_response" /\ pc = "ret")
        => LET has(kind) == \E k \in 1..Len(arg.parts) : arg.parts[k][kind] IN
           /\ ret \in ResponseTypes
           /\ ~arg.raises =>
                 /\ has("success") => ret = "booking_success"
                 /\ (~has("success") /\ has("search")) => ret = "search_results"
                 /\ ret = "error" <=> (~has("success") /\ ~has("search") /\ has("error"))
                 /\ ret = "unknown" <=> (~has("success") /\ ~has("search") /\ ~has("error"))

\* a page with both a success marker and the word 'error' is booking_success
C12_Witness ==
    /\ op = "handle_momentus_response" /\ pc = "ret"
    /\ ~arg.raises
    /\ \E j, k \in 1..Len(arg.parts) : arg.parts[j].success /\ arg.parts[k].error
    /\ ret = "booking_success"

SubmitTyped(c) == c.type = "submit"

\* C13: when the page has a displayed and enabled submit-typed control, the
\* control that is clicked is submit-typed; a button that only carries a
\* keyword in its text is clicked only when no such control is available
C13_SubmitTypedFirst ==
    (op \in {"submit_momentus_form", "find_submit_button"} /\ pc = "ret")
        => ((\E k \in 1..Len(arg) : SubmitTyped(arg[k]) /\ arg[k].displayed /\ arg[k].enabled)
               => (ret # 0 /\ SubmitTyped(arg[ret])))

\* C14: whatever the model replies (an option verbatim, NONE, a near variant,
\* unrelated text, nothing) and also when the call fails, the two matchers
\* answer None or a member of the option list they were given
C14_AnswerIsOptionOrNone ==
    (op \in {"match_dropdown_options", "interpret_capacity_requirement"} /\ pc = "ret")
        => (ret.none \/ \E k \in 1..Len(arg.options) : arg.options[k] = ret.value)

\* a reply that is neither an option nor NONE, answered with an option
C14_Witness ==
    /\ op = "match_dropdown_options"
    /\ pc = "ret"
    /\ ~arg.reply.raises
    /\ arg.reply.content = <<"T", "h", "e", " ", "L", "a", "b", ".">>
    /\ ~ret.none
    /\ ret.value = <<"L", "a", "b">>

\* C15: in every run the submit control is activated only after the form-fill
\* step reported at least one filled field, and the result page is classified
\* only after a submit was performed
C15_FilledThenSubmittedThenClassified ==
    (op \in Flows)
        => /\ ret.submitted => ret.filled >= 1
           /\ ret.classified # "none" => ret.submitted

\* a login request that carried both a username and a password
CarriesBoth(body) == body.object /\ Given(body.username) /\ Given(body.password)

\* the last request of h that matters for the stored credentials: a login
\* that carried both, or a logout; 0 when there is none
LastCredentialRequest(h) ==
    IF \E i \in 1..Len(h) : h[i].route = "logout" \/ (h[i].route = "login" /\ CarriesBoth(h[i].body))
    THEN CHOOSE i \in 1..Len(h) :
            /\ h[i].route = "logout" \/ (h[i].route = "login" /\ CarriesBoth(h[i].body))
            /\ \A j \in (i + 1)..Len(h) :
                   ~(h[j].route = "logout" \/ (h[j].route = "login" /\ CarriesBoth(h[j].body)))
    ELSE 0

\* the most recent login that carried both was not followed by a logout
LoggedIn(h) == LastCredentialRequest(h) # 0 /\ h[LastCredentialRequest(h)].route = "login"

\* the credentials that login carried
CredentialsOf(h) ==
    IF LoggedIn(h)
    THEN [username |-> h[LastCredentialRequest(h)].body.username,
          password |-> h[LastCredentialRequest(h)].body.password]
    ELSE NoSession

\* C16 as stated: with no credentials in the environment, every /api/book
\* with a room_id and every /api/search attempts the browser login exactly
\* when the most recent login carrying both username and password was not
\* followed by a logout, and answers 401 otherwise; every login lacking
\* username or password answers 400 and leaves the stored credentials as
\* they were
C16_LoginGatesBooking ==
    (environ = NoEnviron /\ pc = "ret")
        => /\ ((op = "book_room" /\ arg.body.object /\ Given(arg.body.room_id)) \/ op = "search_rooms")
                  => /\ ret.login_attempted <=> LoggedIn(history)
                     /\ ~LoggedIn(history) => ret.status = 401
           /\ (op = "login" /\ ~CarriesBoth(arg.body)) => ret.status = 400
           /\ session = CredentialsOf(history)

\* C16 for requests whose body is a JSON object: the same, and a request
\* whose body is not a JSON object answers 500 without a login attempt and
\* without touching the stored credentials
C16_LoginGatesBookingOfObjects ==
    (environ = NoEnviron /\ pc = "ret")
        => /\ (op \in {"book_room", "search_rooms", "login"} /\ ~arg.body.object)
                  => (ret.status = 500 /\ ~ret.login_attempted)
           /\ ((op = "book_room" /\ arg.body.object /\ Given(arg.body.room_id))
                  \/ (op = "search_rooms" /\ arg.body.object))
                  => /\ ret.login_attempted <=> LoggedIn(history)
                     /\ ~LoggedIn(history) => ret.status = 401
           /\ (op = "login" /\ arg.body.object /\ ~CarriesBoth(arg.body)) => ret.status = 400
           /\ session = CredentialsOf(history)

\* a login lacking its password, after a complete login: 400, and the
\* earlier credentials still let a search reach the browser login
C16_Witness ==
    /\ environ = NoEnviron
    /\ Len(history) = 3
    /\ history[1].route = "login" /\ CarriesBoth(history[1].body)
    /\ history[2].route = "login" /\ history[2].body.object /\ ~CarriesBoth(history[2].body)
    /\ op = "search_rooms"
    /\ arg.body.object
    /\ ret.login_attempted
    /\ session.username = history[1].body.username

\* the credentials book_room() finds: the session's, else the environment's
HasCredentials ==
    /\ Given(PyOr(session.username, environ.MOMENTUS_USERNAME))
    /\ Given(PyOr(session.password, environ.MOMENTUS_PASSWORD))

\* something raised while book_room() served the request: the body was not
\* an object, or closing the driver failed once the login had been tried
BookRaised ==
    \/ ~arg.body.object
    \/ Given(arg.body.room_id) /\ HasCredentials /\ arg.world.close_raises

\* C17: POST /api/book answers 500 when anything raises and otherwise 400
\* when room_id is missing, whatever the credentials are, 401 when there are
\* no credentials, 401 when the browser login fails, 500 when the booking
\* fails, and 200 with success only when login and booking both succeeded;
\* every answer other than 200 carries 'error'
C17_BookStatus ==
    (op = "book_room" /\ pc = "ret")
        => /\ ret.status \in {200, 400, 401, 500}
           /\ ret.status # 200 => ret.error
           /\ ret.status = 200
                 => (ret.success /\ arg.world.login = "ok" /\ arg.world.book = "ok")
           /\ IF BookRaised THEN ret.status = 500
              ELSE IF ~Given(arg.body.room_id) THEN ret.status = 400
              ELSE IF ~HasCredentials THEN ret.status = 401 /\ ~ret.login_attempted
              ELSE IF arg.world.login = "fail" THEN ret.status = 401
              ELSE IF arg.world.book = "fail" THEN ret.status = 500
              ELSE ret.status = 200

\* a request without room_id from a client without credentials: 400, not 401
C17_Witness ==
    /\ op = "book_room"
    /\ pc = "ret"
    /\ arg.body.object
    /\ ~Given(arg.body.room_id)
    /\ ~HasCredentials
    /\ ret.status = 400

\* the record has the key
HasKey(record, key) == \E p \in 1..Len(record.items) : record.items[p].k = key

\* C18: process_request never raises and calls the model at most once; with
\* no client configured it calls nothing and answers a record with 'note';
\* when the call or the parsing of its reply raises it answers a record
\* with 'error' after that one call
C18_ProcessRequestNeverRaises ==
    (op = "process_request" /\ pc = "ret")
        => /\ ret.raised = "none"
           /\ ret.calls <= 1
           /\ ~arg.client => (ret.calls = 0 /\ HasKey(ret.value, StrNote))
           /\ (arg.client /\ (arg.completion.raises
                                \/ parse_ai_response(arg.completion.content).raised # "none"))
                 => (ret.calls = 1 /\ HasKey(ret.value, StrError))

\* the reply's parsing raised inside process_request, which answered 'error'
C18_Witness ==
    /\ op = "process_request"
    /\ pc = "ret"
    /\ arg.client
    /\ ~arg.completion.raises
    /\ parse_ai_response(arg.completion.content).raised = "RecursionError"
    /\ ret.raised = "none"
    /\ HasKey(ret.value, StrError)

\* the text parses as a JSON object
ParsesAsObject(text) == json_loads(text).err = "none" /\ json_loads(text).val.t = "dict"

\* C19: for every reply text that does not parse as a JSON object,
\* _parse_ai_response returns, without raising, the fallback record: empty
\* extracted_details and the raw text as suggestions
C19_UnparseableGivesFallback ==
    (op = "_parse_ai_response" /\ pc = "ret" /\ ~arg.none /\ ~ParsesAsObject(arg.value))
        => ret = Returned(Fallback(arg.value))

\* the positions an inventory holds
InventoryOf(inv) ==
    {inv.inputs[k] : k \in 1..Len(inv.inputs)}
        \cup {inv.selects[k] : k \in 1..Len(inv.selects)}
        \cup {inv.textareas[k] : k \in 1..Len(inv.textareas)}
        \cup {inv.buttons[k] : k \in 1..Len(inv.buttons)}

\* C20: every element a page inspection puts into its inventory (inputs,
\* selects, textareas, buttons) is displayed; an element of the page that is
\* not displayed is in no inventory
C20_InventoryIsVisible ==
    (op \in {"inspect_form", "analyze_momentus_page"} /\ pc = "ret")
        => \A k \in InventoryOf(ret) : arg[k].displayed

\* no call of save_booking_history is under way
Quiet == \A p \in DOMAIN procs : procs[p].pc = "idle"

\* the array the file held before the first call (none when it was absent)
InitialArray == IF arg.exists THEN json_loads(arg.text).val.items ELSE <<>>

\* the entries of the calls that have returned, in call order
EntriesOf(h) == [i \in 1..Len(h) |-> h[i].entry]

\* the entry is the given booking data plus a 'timestamp'
StampedCopy(given, entry) ==
    /\ HasKey(entry, StrTimestamp)
    /\ \E p \in 1..Len(entry.items) :
          /\ entry.items[p].k = StrTimestamp
          /\ entry.items[p].v.t = "str"
          /\ entry.items = dict_set(given.items, StrTimestamp, entry.items[p].v)

\* C21: in a single process, after calls of save_booking_history that all
\* completed successfully, the file holds the array it held before followed
\* by one entry per call, in call order, each the given booking data plus a
\* timestamp; the earlier entries are as they were
C21_AppendOnly ==
    (op = "save_booking_history" /\ Quiet /\ Len(history) > 0
        /\ \A i \in 1..Len(history) : history[i].ok)
        => /\ disk.exists
           /\ json_loads(disk.text).err = "none"
           /\ json_loads(disk.text).val = JArray(InitialArray \o EntriesOf(history))
           /\ \A i \in 1..Len(history) : StampedCopy(history[i].given, history[i].entry)

\* two successful calls after an array of one earlier entry
C21_Witness ==
    /\ op = "save_booking_history"
    /\ Quiet
    /\ Len(history) = 2
    /\ history[1].ok /\ history[2].ok
    /\ arg.exists /\ Len(InitialArray) = 1
    /\ Len(json_loads(disk.text).val.items) = 3
    /\ json_loads(disk.text).val.items[1] = OldEntry

\* the file holds an array of n entries
HoldsEntries(n) ==
    /\ disk.exists
    /\ json_loads(disk.text).err = "none"
    /\ json_loads(disk.text).val.t = "list"
    /\ Len(json_loads(disk.text).val.items) = n

\* C22: when two concurrent calls both read the file before either opened
\* it for writing and both complete, the file does not hold both new
\* entries
C22_LostUpdate ==
    (op = "save_booking_history" /\ Quiet /\ Len(history) = 2
        /\ history[1].ok /\ history[2].ok
        /\ history[1].seen = 0 /\ history[2].seen = 0)
        => ~HoldsEntries(Len(InitialArray) + 2)

\* both calls read first, both completed, and the file holds the earlier
\* array and only one of the two new entries
C22_Witness ==
    /\ op = "save_booking_history"
    /\ Cardinality(DOMAIN procs) = 2
    /\ Quiet
    /\ Len(history) = 2
    /\ history[1].ok /\ history[2].ok
    /\ history[1].seen = 0 /\ history[2].seen = 0
    /\ HoldsEntries(Len(InitialArray) + 1)
    /\ json_loads(disk.text).val.items[Len(InitialArray) + 1] = history[2].entry


\* C23: an inventory element of type 'date' without name, id, placeholder,
\* label, class or nearby text scores above the threshold against the 'date'
\* requirement, and analyze_and_map_fields maps 'date' to it unless an
\* earlier element of the inventory has already taken 'date'
C23_BareDateInputMapped ==
    (op = "analyze_and_map_fields" /\ pc = "ret")
        => \A i \in 1..Len(arg) :
              (arg[i].type = "date" /\ get_field_text(arg[i]) = <<>>)
                  => /\ ScoreOf(arg, i, "date") > MatchThreshold
                     /\ ret.field_mappings.date \in 1..i
                     /\ (\A j \in 1..(i - 1) : ScoreOf(arg, j, "date") <= MatchThreshold)
                            => ret.field_mappings.date = i

\* 'date' is mapped to a bare date input that follows another element
C23_Witness ==
    /\ op = "analyze_and_map_fields" /\ pc = "ret"
    /\ \E i \in 2..Len(arg) :
          /\ arg[i].type = "date" /\ get_field_text(arg[i]) = <<>>
          /\ ret.field_mappings.date = i

\* the score of a field without any keyword in its text: the type, the
\* special checks and the options
ScoreWithoutKeywords(field, pattern) == calculate_match_score(field, <<>>, pattern)

\* C24: the keywords contribute 0.3 to the score when at least one of them
\* occurs in the element's combined text and nothing otherwise, however many
\* of them occur
C24_KeywordContributionOnce ==
    (op = "analyze_and_map_fields" /\ pc = "ret")
        => \A i \in 1..Len(arg) : \A req \in ReqSet :
              ScoreOf(arg, i, req)
                  = Min(ScoreWithoutKeywords(arg[i], field_patterns[req])
                            + (IF KeywordHits(field_patterns[req].keywords,
                                              Lower(get_field_text(arg[i]))) > 0
                               THEN 3 ELSE 0),
                        10)


\* the options a rule of the capacity priority list applies to: 1 the visible
\* text is the capacity, 2 the value attribute is the capacity, 3 the text
\* contains the capacity or is a range around it, 4 the number of the text is
\* the smallest one that is at least the capacity
CapacityTier(options, capacity, t) ==
    {k \in 1..Len(options) :
        CASE t = 1 -> options[k].text = Dec(capacity)
          [] t = 2 -> options[k].value = Dec(capacity)
          [] t = 3 -> \/ Contains(options[k].text, Dec(capacity))
                      \/ range_covers(options[k].text, capacity)
          [] t = 4 -> /\ option_cap(options[k].text) >= capacity
                      /\ \A j \in 1..Len(options) :
                            option_cap(options[j].text) >= capacity
                                => option_cap(options[k].text) <= option_cap(options[j].text)}

\* C25: a capacity dropdown is filled by strict priority: an option of the
\* first rule that applies to some option is selected, whatever the order of
\* the options; when no rule applies nothing is selected and the fill
\* reports failure
C25_CapacityStrictPriority ==
    (op \in {"fill_capacity_select", "fill_capacity_inspector"} /\ pc = "ret" /\ arg.capacity > 0)
        => IF \A t \in 1..4 : CapacityTier(arg.options, arg.capacity, t) = {}
           THEN ret = NotSelected
           ELSE /\ ret.ok
                /\ \E t \in 1..4 :
                      /\ ret.selected \in CapacityTier(arg.options, arg.capacity, t)
                      /\ \A u \in 1..(t - 1) : CapacityTier(arg.options, arg.capacity, u) = {}


\* the supported date strings that denote the calendar date of n, with and
\* without the year
TodayStrings(n) ==
    {Pad4(n.y) \o <<"-">> \o Num(n.m, z) \o <<"-">> \o Num(n.d, z) : z \in BOOLEAN}
        \cup {Num(n.m, z) \o <<"/">> \o Num(n.d, z) \o <<"/">> \o Pad4(n.y) : z \in BOOLEAN}
        \cup {Num(n.m, z) \o <<"-">> \o Num(n.d, z) \o <<"-">> \o Pad4(n.y) : z \in BOOLEAN}
        \cup {NameOf(n.m, l) \o <<" ">> \o Dec(n.d) : l \in BOOLEAN}
        \cup {NameOf(n.m, l) \o <<" ">> \o Dec(n.d) \o <<",", " ">> \o Pad4(n.y) : l \in BOOLEAN}

\* C26: at any moment of a day, normalize_date (smart and complete workflow)
\* of a supported date string that denotes today's calendar date, with or
\* without a year, returns today's date
C26_TodayStaysToday ==
    (op = "normalize_date" /\ pc = "ret" /\ variant \in {"smart", "complete"}
        /\ arg \in TodayStrings(now) \cap SupportedDateStrings)
        => ret = Pad4(now.y) \o <<"-">> \o Pad2(now.m) \o <<"-">> \o Pad2(now.d)


\* dropdown d has been written by the start or the end time step of the pass
TimeStepWrote(d) ==
    \E i \in 1..Len(ret.writes) :
        ret.writes[i].element = d /\ ret.writes[i].step \in {"start_time", "end_time"}

\* C27: once the start (end) time step of fill_momentus_form_with_ai has
\* selected the option for criteria['start_time'] (criteria['end_time']) in
\* the dropdown identified as the start (end) time control, no later step of
\* the same fill pass selects a different option in that dropdown
C27_TimeDropdownKept ==
    [][(op = "smart_form_pass" /\ pc # "call")
          => \A d \in DOMAIN ret.selected :
                TimeStepWrote(d) => ret'.selected[d] = ret.selected[d]]_vars

\* C28: when the detection recorded at least one button, and the click does
\* not fail, submit_momentus_form_smart clicks one of the recorded buttons
\* and returns True
C28_RecordedButtonClicked ==
    (op = "smart_form_pass" /\ ret.submit_called
        /\ Len(ret.form_elements.buttons) >= 1 /\ ~arg.click_raises)
        => /\ ret.submit_success
           /\ ret.clicked \in 1..Len(ret.form_elements.buttons)


\* C29: a request to /api/book or /api/search that has returned its response
\* has left no browser running: a driver that was started has been quit
C29_DriverQuitBeforeResponse ==
    (op \in {"book_room", "search_rooms"} /\ pc = "ret") => driver # "open"

\* a request that started a browser has returned
C29_Witness ==
    /\ op \in {"book_room", "search_rooms"} /\ pc = "ret"
    /\ arg.world.setup # "no_browser"
    /\ ret.login_attempted
    /\ driver = "quit"


\* a field of the request is present, non-empty and a text of the given form
WellFormed(value, IsForm(_)) == value.t = "str" /\ value.s # <<>> /\ IsForm(value.s)

\* C30: validate_booking_request never raises, and the record it returns has
\* valid true exactly when errors is empty, which is exactly when date,
\* start_time and end_time are all present, non-empty and well-formed
\* (YYYY-MM-DD, HH:MM)
C30_ValidationNeverRaises ==
    (op = "validate_booking_request" /\ pc = "ret")
        => /\ ret.raised = "none"
           /\ ret.value.valid <=> (Len(ret.value.errors) = 0)
           /\ ret.value.valid <=> /\ WellFormed(arg.date, IsIsoDate)
                                  /\ WellFormed(arg.start_time, IsClock)
                                  /\ WellFormed(arg.end_time, IsClock)

====
